---- MODULE Spec2Model ----
(***************************************************************************)
(* Session lifecycle of the agri-monitoring dashboard client.              *)
(*                                                                         *)
(* State: the browser's localStorage, the three BehaviorSubjects of        *)
(* AuthService, the router's target and the mounted view component, the    *)
(* HTTP calls in flight, and the flags of the alerts and plot-details      *)
(* views.  `last` is a history variable: the operation or callback that    *)
(* ran in the step leading to the current state, what it delivered to its  *)
(* subscriber and the HTTP requests it issued.                             *)
(***************************************************************************)
EXTENDS Integers, Sequences, FiniteSets, Bags, TLC

VARIABLES storage, isLoggedIn, userRole, currentUser, route, mounted,
          pending, alertsView, plotView, dashView, last

vars == <<storage, isLoggedIn, userRole, currentUser, route, mounted,
          pending, alertsView, plotView, dashView, last>>

\* Number of HTTP calls the client may have in flight at once.
MaxPending == 2

\* Timer callbacks followed per view instance.
MaxTicks == 61

----------------------------------------------------------------------------
\* Values

\* A nullable value is a sequence of length 0 (null) or 1.
None == <<>>

Some(x) == <<x>>

tokenKey == "access_token"

refreshKey == "refresh_token"

userKey == "user_data"

\* The key ApiService.logout removes; nothing in the client writes it.
legacyUserKey == "user"

StorageKeys == {tokenKey, refreshKey, userKey, legacyUserKey}

\* Tokens the backend may issue (JWTs: non-empty strings).
AccessTokens == {"a1", "a2"}

RefreshTokens == {"r1"}

\* Every combination of the flags and the server's own role a profile may have.
AllProfiles ==
  { [username |-> "amal", is_staff |-> st, is_superuser |-> su, role |-> r] :
      st \in BOOLEAN, su \in BOOLEAN, r \in {"admin", "farmer"} }

\* Profiles GET /auth/user/ may return; `role` is the server's own value.
Profiles ==
  { [username |-> "amal", is_staff |-> TRUE, is_superuser |-> FALSE, role |-> "farmer"],
    [username |-> "badr", is_staff |-> FALSE, is_superuser |-> FALSE, role |-> "admin"] }

\* HTTP statuses of a failed call.
ErrorStatuses == {401, 500}

Routes == {"login", "dashboard", "alerts", "plot-details"}

----------------------------------------------------------------------------
\* localStorage

getItem(s, k) == s[k]

setItem(s, k, v) == [s EXCEPT ![k] = Some(v)]

removeItem(s, k) == [s EXCEPT ![k] = None]

EmptyStorage == [k \in StorageKeys |-> None]

\* JSON.stringify / JSON.parse of a User object.
JSON_stringify(u) == [json |-> u]

JSON_parse(text) == text.json

----------------------------------------------------------------------------
\* HTTP requests and the history record

Request(method, url, auth, body) ==
  [method |-> method, url |-> url, auth |-> auth, body |-> body]

Bearer(token) == "Bearer " \o token

\* What a step did: the operation or callback, what its subscriber received,
\* the HTTP status it handled, the requests it issued, the payload it was
\* given, whether the component it ran on was still the mounted instance, and
\* the component fields it assigned.
Event(op, outcome, status, reqs, input, onLive, writes) ==
  [op |-> op, outcome |-> outcome, status |-> status, reqs |-> reqs,
   input |-> input, onLive |-> onLive, writes |-> writes]

Did(op, outcome, status, reqs) ==
  Event(op, outcome, status, reqs, None, TRUE, {})

\* A call in flight: who started it, which request of it is outstanding, and
\* whether the view component that started it is still the mounted instance.
\* ids are the anomalies the call was made for; inList tells whether the
\* anomaly object a handler captured is still an entry of its view's list.
CallFor(kind, phase, live, ids, inList) ==
  [kind |-> kind, phase |-> phase, live |-> live, ids |-> ids, inList |-> inList]

Call(kind, phase, live) == CallFor(kind, phase, live, <<>>, FALSE)

NoCalls == EmptyBag

InFlight == BagToSet(pending)

HasFreeSlot == BagCardinality(pending) < MaxPending

Started(p, c) == p (+) SetToBag({c})

Completed(p, c) == p (-) SetToBag({c})

CountOf(p, c) == IF c \in DOMAIN p THEN p[c] ELSE 0

\* Calls issued by a view component that has since been destroyed still
\* complete, but their handlers write to the dead instance.
Orphaned(p) ==
  [c \in {[d EXCEPT !.live = FALSE] : d \in DOMAIN p} |->
     CountOf(p, c) + CountOf(p, [c EXCEPT !.live = TRUE])]

\* The mounted view has replaced its list: the anomaly objects captured by
\* its calls in flight are no longer entries of the list.
Detached(p) ==
  [c \in {IF d.live THEN [d EXCEPT !.inList = FALSE] ELSE d : d \in DOMAIN p} |->
     CountOf(p, c) + IF c.live THEN CountOf(p, [c EXCEPT !.inList = TRUE]) ELSE 0]

----------------------------------------------------------------------------
\* AuthService: pure parts

\* The role computed from a fetched profile.
DeriveRole(userInfo) ==
  IF userInfo.is_staff \/ userInfo.is_superuser THEN "admin" ELSE "farmer"

WithRole(userInfo) == [userInfo EXCEPT !.role = DeriveRole(userInfo)]

getToken(s) == getItem(s, tokenKey)

isTokenValid(s) == getToken(s) # None

getCurrentUser(s) ==
  IF getItem(s, userKey) # None
    THEN Some(JSON_parse(getItem(s, userKey)[1]))
    ELSE None

\* The session as AuthService sees it.
Session ==
  [storage |-> storage, isLoggedIn |-> isLoggedIn, userRole |-> userRole,
   currentUser |-> currentUser, route |-> route]

\* A logout written as an else-if chain: the refresh token and the user are
\* removed only when no access token was left to remove.
AuthLogout_elseIf(s) ==
  [storage |-> IF getItem(s.storage, tokenKey) # None
                 THEN removeItem(s.storage, tokenKey)
                 ELSE removeItem(removeItem(s.storage, refreshKey), userKey),
   isLoggedIn |-> FALSE,
   userRole |-> "",
   currentUser |-> None,
   route |-> "login"]

\* AuthService.logout as a function of the session.
AuthLogout(s) ==
  [storage |-> removeItem(removeItem(removeItem(s.storage, tokenKey),
                                     refreshKey), userKey),
   isLoggedIn |-> FALSE,
   userRole |-> "",
   currentUser |-> None,
   route |-> "login"]

\* A rehydration that looks at the token alone.
checkTokenValidity_tokenOnly(s) ==
  IF isTokenValid(s)
    THEN [isLoggedIn |-> TRUE,
          userRole |-> IF getCurrentUser(s) # None
                         THEN getCurrentUser(s)[1].role ELSE "",
          currentUser |-> getCurrentUser(s)]
    ELSE [isLoggedIn |-> FALSE, userRole |-> "", currentUser |-> None]

\* checkTokenValidity, run by the constructor on freshly initialised subjects.
checkTokenValidity(s) ==
  IF isTokenValid(s) /\ getCurrentUser(s) # None
    THEN [isLoggedIn |-> TRUE,
          userRole |-> getCurrentUser(s)[1].role,
          currentUser |-> getCurrentUser(s)]
    ELSE [isLoggedIn |-> FALSE, userRole |-> "", currentUser |-> None]

SetSession(s) ==
  /\ storage' = s.storage
  /\ isLoggedIn' = s.isLoggedIn
  /\ userRole' = s.userRole
  /\ currentUser' = s.currentUser
  /\ route' = s.route

\* Initial field values of the view components.
\* AlertsComponent: refreshSub tells whether the refresh timer is subscribed;
\* ticks and fires count the timer callbacks the instance has run and the
\* refreshes they started; generated is the history of the anomalies a
\* generation call of this instance has completed for.
AlertsInitial ==
  [isLoading |-> TRUE, errorMessage |-> "", refreshCountdown |-> 30,
   refreshSub |-> FALSE, anomalies |-> <<>>, processingAnomalies |-> {},
   ticks |-> 0, fires |-> 0, generated |-> {}]

\* A destroyed alerts view that stays subscribed to its timer.
AlertsDestroyed_keepsTimer(v) == [AlertsInitial EXCEPT !.refreshSub = v.refreshSub]

\* AlertsComponent.ngOnDestroy: the timer is unsubscribed and the set of
\* anomalies being processed emptied; the instance is gone.
AlertsDestroyed(v) == AlertsInitial

\* PlotDetailsComponent: plotId is the number read from the route (0 for a
\* parameter that is no plot id), plot the id of the plot whose data the view
\* holds (plot, sensorReadings and anomalies are assigned together), and
\* selectedAnomaly a copy of the selected entry.  fallback is the history of
\* the first recommendation this view stored for a failed generation, with
\* the anomaly the call was made for.
PlotInitial ==
  [plotId |-> 0, plot |-> None, loading |-> TRUE, error |-> "",
   anomalies |-> <<>>, selectedAnomaly |-> None, fallback |-> None]

\* The plot id of the route the plot-details view is first opened with.
FirstPlotId == 1

\* The period of the dashboard's refresh timer and the length of the
\* countdown it starts, in seconds.
DashPeriod == 30

DashCountdown == 5

\* DashboardComponent: refreshTimer is the subscription to timer(30000, 30000),
\* elapsed the seconds since it was subscribed or last fired, interval the
\* running setInterval countdown.  orphan is the countdown of an interval
\* whose instance has been destroyed: the browser keeps running it.
DashInitial ==
  [refreshCountdown |-> 0, refreshTimer |-> FALSE, elapsed |-> 0,
   interval |-> FALSE, recentAnomalies |-> <<>>, orphan |-> None]

\* DashboardComponent.ngOnDestroy unsubscribes refreshTimer only.
DashDestroyed(d) ==
  [DashInitial EXCEPT !.orphan = IF d.interval THEN Some(d.refreshCountdown)
                                  ELSE d.orphan]

----------------------------------------------------------------------------
\* Recommendations: the alerts view's normalizer and fallback generator

\* `x || d` on an optional text or number: null, '' and 0 give the default.
TruthyText(x) == x # None /\ x[1] # ""

TruthyNumber(x) == x # None /\ x[1] # 0

OrText(x, d) == IF TruthyText(x) THEN x[1] ELSE d

OrNumber(x, d) == IF TruthyNumber(x) THEN x[1] ELSE d

\* A backend recommendation payload; an absent field is None.  Confidence is
\* in hundredths.
Payload(recommended_action, recommendation, action, explanation_text, explanation, confidence) ==
  [recommended_action |-> recommended_action, recommendation |-> recommendation,
   action |-> action, explanation_text |-> explanation_text,
   explanation |-> explanation, confidence |-> confidence]

EmptyPayload == Payload(None, None, None, None, None, None)

\* What a view stores as agent_recommendation (the timestamp is left out).
Recommendation(action, explanation, confidence, source) ==
  [recommended_action |-> action, explanation_text |-> explanation,
   confidence |-> confidence, source |-> source]

\* A normalizer that looks at recommendation before recommended_action.
formatRecommendation_recommendationFirst(response) ==
  IF TruthyText(response.recommendation)
    THEN Recommendation(response.recommendation[1],
                        OrText(response.explanation, "Generated by AI agent"),
                        OrNumber(response.confidence, 70), None)
  ELSE IF TruthyText(response.recommended_action)
    THEN Recommendation(response.recommended_action[1],
                        OrText(response.explanation_text,
                               "AI-generated recommendation"),
                        OrNumber(response.confidence, 80), None)
  ELSE IF TruthyText(response.action)
    THEN Recommendation(response.action[1],
                        OrText(response.explanation, "AI analysis completed"),
                        OrNumber(response.confidence, 75), None)
  ELSE Recommendation("Monitor anomaly and adjust farming practices",
                      "Temperature/moisture imbalance detected", 75, None)

\* AlertsComponent.formatRecommendation
formatRecommendation(response) ==
  IF TruthyText(response.recommended_action)
    THEN Recommendation(response.recommended_action[1],
                        OrText(response.explanation_text,
                               "AI-generated recommendation"),
                        OrNumber(response.confidence, 80), None)
  ELSE IF TruthyText(response.recommendation)
    THEN Recommendation(response.recommendation[1],
                        OrText(response.explanation, "Generated by AI agent"),
                        OrNumber(response.confidence, 70), None)
  ELSE IF TruthyText(response.action)
    THEN Recommendation(response.action[1],
                        OrText(response.explanation, "AI analysis completed"),
                        OrNumber(response.confidence, 75), None)
  ELSE Recommendation("Monitor anomaly and adjust farming practices",
                      "Temperature/moisture imbalance detected", 75, None)

\* An anomaly as the backend sends it.  anomaly_type is the set of the words
\* its text is made of, as written; None when the field is absent.
Anomaly(id, anomaly_type, severity) ==
  [id |-> id, anomaly_type |-> anomaly_type, severity |-> severity]

\* The type rules of getMockRecommendation, in their order.
mockRecommendations ==
  << [words |-> {"moisture", "low"},
      action |-> "Increase irrigation by 20-30% for the next 48 hours",
      explanation |-> "Soil moisture below optimal range. Plants showing early signs of water stress.",
      confidence |-> 85],
     [words |-> {"moisture", "high"},
      action |-> "Stop irrigation immediately and improve drainage systems",
      explanation |-> "Excess soil moisture detected. Risk of root rot and fungal diseases.",
      confidence |-> 82],
     [words |-> {"temperature", "high"},
      action |-> "Deploy shade nets and increase irrigation frequency",
      explanation |-> "High temperature stress detected. Crops at risk of heat damage.",
      confidence |-> 80],
     [words |-> {"temperature", "low"},
      action |-> "Activate frost protection and reduce irrigation",
      explanation |-> "Low temperature alert. Protect sensitive crops from frost damage.",
      confidence |-> 78],
     [words |-> {"humidity", "high"},
      action |-> "Improve ventilation and monitor for fungal diseases",
      explanation |-> "High humidity promotes fungal growth and reduces transpiration.",
      confidence |-> 75] >>

\* A default table whose entry for unknown severities is the low one.
defaultActions_lowDefault(severity) ==
  CASE severity = "high" ->
         [action |-> "Immediate field inspection required. Consider emergency measures.",
          explanation |-> "Critical anomaly detected. High impact on crop health.",
          confidence |-> 90]
    [] severity = "medium" ->
         [action |-> "Schedule inspection within 24 hours and adjust practices.",
          explanation |-> "Moderate risk anomaly. Monitor closely.",
          confidence |-> 75]
    [] OTHER ->
         [action |-> "Monitor trend and adjust during next regular maintenance.",
          explanation |-> "Minor anomaly. Low immediate risk.",
          confidence |-> 65]

defaultActions(severity) ==
  CASE severity = "high" ->
         [action |-> "Immediate field inspection required. Consider emergency measures.",
          explanation |-> "Critical anomaly detected. High impact on crop health.",
          confidence |-> 90]
    [] severity = "low" ->
         [action |-> "Monitor trend and adjust during next regular maintenance.",
          explanation |-> "Minor anomaly. Low immediate risk.",
          confidence |-> 65]
    [] OTHER ->
         [action |-> "Schedule inspection within 24 hours and adjust practices.",
          explanation |-> "Moderate risk anomaly. Monitor closely.",
          confidence |-> 75]

\* String.prototype.toLowerCase on the words anomaly types are written with.
toLowerCase(word) ==
  CASE word = "LOW" -> "low"
    [] word = "Moisture" -> "moisture"
    [] OTHER -> word

\* A fallback generator that looks at a high severity before the type.
getMockRecommendation_severityFirst(anomaly) ==
  LET type == IF anomaly.anomaly_type # None
                THEN {toLowerCase(word) : word \in anomaly.anomaly_type[1]}
                ELSE {}
      severity == OrText(anomaly.severity, "medium")
      matching == {k \in 1..Len(mockRecommendations) :
                     mockRecommendations[k].words \subseteq type}
      matchedRec == IF matching # {} /\ severity # "high"
                      THEN mockRecommendations[CHOOSE k \in matching :
                                                 \A j \in matching : k <= j]
                      ELSE defaultActions(severity)
  IN Recommendation(matchedRec.action, matchedRec.explanation,
                    matchedRec.confidence, Some("ai_agent_mock"))

\* A fallback generator in which the last matching rule wins.
getMockRecommendation_lastMatch(anomaly) ==
  LET type == IF anomaly.anomaly_type # None
                THEN {toLowerCase(word) : word \in anomaly.anomaly_type[1]}
                ELSE {}
      severity == OrText(anomaly.severity, "medium")
      matching == {k \in 1..Len(mockRecommendations) :
                     mockRecommendations[k].words \subseteq type}
      matchedRec == IF matching # {}
                      THEN mockRecommendations[CHOOSE k \in matching :
                                                 \A j \in matching : k >= j]
                      ELSE defaultActions(severity)
  IN Recommendation(matchedRec.action, matchedRec.explanation,
                    matchedRec.confidence, Some("ai_agent_mock"))

\* AlertsComponent.getMockRecommendation: type.includes(word) holds when the
\* word is one of those the lower-cased type text is made of.
getMockRecommendation(anomaly) ==
  LET type == IF anomaly.anomaly_type # None
                THEN {toLowerCase(word) : word \in anomaly.anomaly_type[1]}
                ELSE {}
      severity == OrText(anomaly.severity, "medium")
      matching == {k \in 1..Len(mockRecommendations) :
                     mockRecommendations[k].words \subseteq type}
      matchedRec == IF matching # {}
                      THEN mockRecommendations[CHOOSE k \in matching :
                                                 \A j \in matching : k <= j]
                      ELSE defaultActions(severity)
  IN Recommendation(matchedRec.action, matchedRec.explanation,
                    matchedRec.confidence, Some("ai_agent_mock"))

\* The words and the severities of the backend's anomalies.
TypeWords ==
  <<"low", "high", "moisture", "temperature", "humidity", "soil", "LOW",
    "Moisture">>

Severities == <<None, Some(""), Some("high"), Some("medium"), Some("low"),
                Some("critical")>>

\* The n-th set of words, n counting the subsets of TypeWords in binary.
WordSet(n) ==
  {TypeWords[i] : i \in {j \in 1..Len(TypeWords) : (n \div (2 ^ (j - 1))) % 2 = 1}}

\* The anomalies of the backend.  Anomalies 1 and 2 are those of the lists
\* below; from 3 on the backend holds one anomaly for every type, absent or
\* made of any of the words, and every severity.
ServerAnomaly(id) ==
  IF id = 1 THEN Anomaly(1, Some({"moisture", "low"}), Some("high"))
  ELSE IF id = 2 THEN Anomaly(id, None, None)
  ELSE LET n == id - 3
           type == n \div Len(Severities)
       IN Anomaly(id,
                  IF type = 0 THEN None ELSE Some(WordSet(type - 1)),
                  Severities[(n % Len(Severities)) + 1])

CatalogueIds == 3..(2 + (2 ^ Len(TypeWords) + 1) * Len(Severities))

\* The lists GET /anomalies/ answers with.

AnomalyLists == {<<>>, <<2>>, <<1, 2>>}

\* The text of the recommendation the backend holds for an anomaly.
ActionFor(id) ==
  IF id = 1 THEN "Irrigate the plot of anomaly 1"
            ELSE "Ventilate the plot of anomaly 2"

BackendRecommendation(id) ==
  Payload(Some(ActionFor(id)), None, None, None, None, None)

\* What POST /anomalies/{id}/recommend/ may answer with.
GenerationPayloads(id) == {BackendRecommendation(id), EmptyPayload}

\* Every payload shape: each text field absent, empty or set, the confidence
\* absent, zero or set.
AllPayloads ==
  {Payload(ra, r, a, et, e, c) :
     ra \in {None, Some(""), Some("from recommended_action")},
     r \in {None, Some(""), Some("from recommendation")},
     a \in {None, Some(""), Some("from action")},
     et \in {None, Some(""), Some("from explanation_text")},
     e \in {None, Some(""), Some("from explanation")},
     c \in {None, Some(0), Some(95)}}

\* What one request of a batch of recommendation fetches may end with.
BatchOutcomes == {"recommendation", "empty", "error"}

\* An entry of AlertsComponent.anomalies.
ViewAnomaly(anomaly) ==
  [id |-> anomaly.id, anomaly_type |-> anomaly.anomaly_type,
   severity |-> anomaly.severity, loadingRecommendation |-> FALSE,
   agent_recommendation |-> None]

PositionsOf(anomalies, id) == {k \in 1..Len(anomalies) : anomalies[k].id = id}

----------------------------------------------------------------------------
\* Process start

Init ==
  /\ storage = EmptyStorage
  /\ isLoggedIn = checkTokenValidity(EmptyStorage).isLoggedIn
  /\ userRole = checkTokenValidity(EmptyStorage).userRole
  /\ currentUser = checkTokenValidity(EmptyStorage).currentUser
  /\ route = "login"
  /\ mounted = "none"
  /\ pending = NoCalls
  /\ alertsView = AlertsInitial
  /\ plotView = PlotInitial
  /\ dashView = DashInitial
  /\ last = Did("constructor", "none", 0, <<>>)

\* The page is reloaded: the process restarts on the same URL and storage,
\* every call in flight is dropped and AuthService is constructed again.
Reload ==
  /\ isLoggedIn' = checkTokenValidity(storage).isLoggedIn
  /\ userRole' = checkTokenValidity(storage).userRole
  /\ currentUser' = checkTokenValidity(storage).currentUser
  /\ mounted' = "none"
  /\ pending' = NoCalls
  /\ alertsView' = AlertsInitial
  /\ plotView' = PlotInitial
  /\ dashView' = DashInitial
  /\ last' = Did("constructor", "none", 0, <<>>)
  /\ UNCHANGED <<storage, route>>

----------------------------------------------------------------------------
\* AuthService.login

login ==
  /\ HasFreeSlot
  /\ pending' = Started(pending, Call("login", "token", FALSE))
  /\ last' = Did("login", "none", 0,
                 <<Request("POST", "/auth/login/", "", "credentials")>>)
  /\ UNCHANGED <<storage, isLoggedIn, userRole, currentUser, route, mounted,
                 alertsView, plotView, dashView>>

\* A token exchange that already marks the session logged in.
loginTokenOk_marksLoggedIn(c, access, refresh) ==
  /\ c.kind = "login" /\ c.phase = "token"
  /\ storage' = setItem(setItem(storage, tokenKey, access), refreshKey, refresh)
  /\ isLoggedIn' = TRUE
  /\ pending' = Started(Completed(pending, c), Call("login", "profile", FALSE))
  /\ last' = Did("login.tokenOk", "none", 200,
                 <<Request("GET", "/auth/user/", Bearer(access), "")>>)
  /\ UNCHANGED <<userRole, currentUser, route, mounted, alertsView, plotView,
                 dashView>>

\* switchMap callback: the token exchange succeeded.
loginTokenOk(c, access, refresh) ==
  /\ c.kind = "login" /\ c.phase = "token"
  /\ storage' = setItem(setItem(storage, tokenKey, access), refreshKey, refresh)
  /\ pending' = Started(Completed(pending, c), Call("login", "profile", FALSE))
  /\ last' = Did("login.tokenOk", "none", 200,
                 <<Request("GET", "/auth/user/", Bearer(access), "")>>)
  /\ UNCHANGED <<isLoggedIn, userRole, currentUser, route, mounted,
                 alertsView, plotView, dashView>>

\* catchError rethrows: the token exchange failed.
loginTokenError(c, status) ==
  /\ c.kind = "login" /\ c.phase = "token"
  /\ pending' = Completed(pending, c)
  /\ last' = Did("login.tokenError", "error", status, <<>>)
  /\ UNCHANGED <<storage, isLoggedIn, userRole, currentUser, route, mounted,
                 alertsView, plotView, dashView>>

\* tap callback: the profile fetch succeeded.
loginProfileOk(c, userInfo) ==
  /\ c.kind = "login" /\ c.phase = "profile"
  /\ storage' = setItem(storage, userKey, JSON_stringify(WithRole(userInfo)))
  /\ isLoggedIn' = TRUE
  /\ userRole' = WithRole(userInfo).role
  /\ currentUser' = Some(WithRole(userInfo))
  /\ route' = "dashboard"
  /\ pending' = Completed(pending, c)
  /\ last' = Event("login.profileOk", "next", 200, <<>>, Some(userInfo), TRUE, {})
  /\ UNCHANGED <<mounted, alertsView, plotView, dashView>>

\* catchError rethrows: the profile fetch failed.
loginProfileError(c, status) ==
  /\ c.kind = "login" /\ c.phase = "profile"
  /\ pending' = Completed(pending, c)
  /\ last' = Did("login.profileError", "error", status, <<>>)
  /\ UNCHANGED <<storage, isLoggedIn, userRole, currentUser, route, mounted,
                 alertsView, plotView, dashView>>

----------------------------------------------------------------------------
\* AuthService.refreshToken and AuthService.logout

\* A refreshToken whose missing-token branch fails without logging out.
refreshToken_keepsSession ==
  IF getItem(storage, refreshKey) = None
    THEN /\ last' = Did("refreshToken.noToken", "error", 0, <<>>)
         /\ UNCHANGED <<storage, isLoggedIn, userRole, currentUser, route,
                        mounted, pending, alertsView, plotView, dashView>>
    ELSE /\ HasFreeSlot
         /\ pending' = Started(pending, Call("refresh", "refresh", FALSE))
         /\ last' = Did("refreshToken", "none", 0,
                        <<Request("POST", "/auth/refresh/", "",
                                  getItem(storage, refreshKey)[1])>>)
         /\ UNCHANGED <<storage, isLoggedIn, userRole, currentUser, route,
                        mounted, alertsView, plotView, dashView>>

refreshToken ==
  IF getItem(storage, refreshKey) = None
    THEN /\ SetSession(AuthLogout(Session))
         /\ last' = Did("refreshToken.noToken", "error", 0, <<>>)
         /\ UNCHANGED <<mounted, pending, alertsView, plotView, dashView>>
    ELSE /\ HasFreeSlot
         /\ pending' = Started(pending, Call("refresh", "refresh", FALSE))
         /\ last' = Did("refreshToken", "none", 0,
                        <<Request("POST", "/auth/refresh/", "",
                                  getItem(storage, refreshKey)[1])>>)
         /\ UNCHANGED <<storage, isLoggedIn, userRole, currentUser, route,
                        mounted, alertsView, plotView, dashView>>

refreshOk(c, access) ==
  /\ c.kind = "refresh"
  /\ storage' = setItem(storage, tokenKey, access)
  /\ pending' = Completed(pending, c)
  /\ last' = Did("refreshToken.ok", "next", 200, <<>>)
  /\ UNCHANGED <<isLoggedIn, userRole, currentUser, route, mounted,
                 alertsView, plotView, dashView>>

\* A failed refresh that is sent again instead of ending the session.
refreshError_retries(c, status) ==
  /\ c.kind = "refresh"
  /\ getItem(storage, refreshKey) # None
  /\ last' = Did("refreshToken.error", "none", status,
                 <<Request("POST", "/auth/refresh/", "",
                           getItem(storage, refreshKey)[1])>>)
  /\ UNCHANGED <<storage, isLoggedIn, userRole, currentUser, route, mounted,
                 pending, alertsView, plotView, dashView>>

refreshError(c, status) ==
  /\ c.kind = "refresh"
  /\ SetSession(AuthLogout(Session))
  /\ pending' = Completed(pending, c)
  /\ last' = Did("refreshToken.error", "error", status, <<>>)
  /\ UNCHANGED <<mounted, alertsView, plotView, dashView>>

logout ==
  /\ SetSession(AuthLogout(Session))
  /\ last' = Did("AuthService.logout", "none", 0, <<>>)
  /\ UNCHANGED <<mounted, pending, alertsView, plotView, dashView>>

----------------------------------------------------------------------------
\* AuthService.refreshUserProfile

\* AuthService.getAuthHeaders: `Bearer ${token}`, also when the token is null.
getAuthHeaders(s) ==
  Bearer(IF getToken(s) # None THEN getToken(s)[1] ELSE "null")

refreshUserProfile ==
  /\ HasFreeSlot
  /\ pending' = Started(pending, Call("profile", "profile", FALSE))
  /\ last' = Did("refreshUserProfile", "none", 0,
                 <<Request("GET", "/auth/auth/user/", getAuthHeaders(storage), "")>>)
  /\ UNCHANGED <<storage, isLoggedIn, userRole, currentUser, route, mounted,
                 alertsView, plotView, dashView>>

\* A profile refresh that keeps the role the server sent.
refreshProfileOk_trustsServer(c, userInfo) ==
  /\ c.kind = "profile"
  /\ storage' = setItem(storage, userKey, JSON_stringify(userInfo))
  /\ currentUser' = Some(userInfo)
  /\ pending' = Completed(pending, c)
  /\ last' = Event("refreshUserProfile.ok", "next", 200, <<>>, Some(userInfo),
                   TRUE, {})
  /\ UNCHANGED <<isLoggedIn, userRole, route, mounted, alertsView, plotView,
                 dashView>>

\* tap callback: the stored user and currentUser$ get the fetched profile
\* with the derived role; userRole$ and isLoggedIn$ are not touched.
refreshProfileOk(c, userInfo) ==
  /\ c.kind = "profile"
  /\ storage' = setItem(storage, userKey, JSON_stringify(WithRole(userInfo)))
  /\ currentUser' = Some(WithRole(userInfo))
  /\ pending' = Completed(pending, c)
  /\ last' = Event("refreshUserProfile.ok", "next", 200, <<>>, Some(userInfo),
                   TRUE, {})
  /\ UNCHANGED <<isLoggedIn, userRole, route, mounted, alertsView, plotView,
                 dashView>>

\* catchError logs and rethrows.
refreshProfileError(c, status) ==
  /\ c.kind = "profile"
  /\ pending' = Completed(pending, c)
  /\ last' = Did("refreshUserProfile.error", "error", status, <<>>)
  /\ UNCHANGED <<storage, isLoggedIn, userRole, currentUser, route, mounted,
                 alertsView, plotView, dashView>>

----------------------------------------------------------------------------
\* ApiService

\* A getHeaders that reads the wrong storage key.
getHeaders_wrongKey(s) ==
  IF getItem(s, refreshKey) # None THEN Bearer(getItem(s, refreshKey)[1]) ELSE ""

\* ApiService.getHeaders: the Authorization header read from storage now.
getHeaders(s) ==
  IF getItem(s, tokenKey) # None THEN Bearer(getItem(s, tokenKey)[1]) ELSE ""

Get(url) == Request("GET", url, getHeaders(storage), "")

ApiLogout(s) == removeItem(removeItem(s, tokenKey), legacyUserKey)

ApiService_logout ==
  /\ storage' = ApiLogout(storage)
  /\ last' = Did("ApiService.logout", "none", 0, <<>>)
  /\ UNCHANGED <<isLoggedIn, userRole, currentUser, route, mounted, pending,
                 alertsView, plotView, dashView>>

----------------------------------------------------------------------------
\* Router

\* The user follows a link or a view calls router.navigate.
Navigate(r) ==
  /\ r # route
  /\ route' = r
  /\ last' = Did("navigate", "none", 0, <<>>)
  /\ UNCHANGED <<storage, isLoggedIn, userRole, currentUser, mounted, pending,
                 alertsView, plotView, dashView>>

\* The logout handler shared by the dashboard and plot-details views.
ViewLogout(s) == removeItem(s, tokenKey)

----------------------------------------------------------------------------
\* The calls the views start

DashboardRequests ==
  <<Get("/dashboard/stats/"), Get("/plots/"), Get("/anomalies/"),
    Get("/sensor-readings/")>>

PlotRequests ==
  <<Get("/plots/{id}/"), Get("/sensor-readings/?field_plot={id}"),
    Get("/anomalies/?field_plot={id}")>>

\* The router activates the component of its target: the old component is
\* destroyed (its fields are gone: the model holds them at their initial
\* values), the new one constructed and its ngOnInit run.
Activate(idValid) ==
  /\ mounted # route
  /\ mounted' = route
  /\ UNCHANGED <<storage, isLoggedIn, userRole, currentUser, route>>
  /\ dashView' = IF route = "dashboard"
                   THEN [DashDestroyed(dashView) EXCEPT !.refreshTimer = TRUE]
                   ELSE DashDestroyed(dashView)
  /\ CASE route = "login" ->
            /\ pending' = Orphaned(pending)
            /\ last' = Did("LoginComponent", "none", 0, <<>>)
            /\ alertsView' = AlertsDestroyed(alertsView)
            /\ plotView' = PlotInitial
       [] route = "dashboard" ->
            /\ HasFreeSlot
            /\ pending' = Started(Orphaned(pending), Call("dashboardLoad", "load", TRUE))
            /\ last' = Did("DashboardComponent.ngOnInit", "none", 0,
                           DashboardRequests)
            /\ alertsView' = AlertsDestroyed(alertsView)
            /\ plotView' = PlotInitial
       [] route = "alerts" ->
            /\ HasFreeSlot
            /\ pending' = Started(Orphaned(pending), Call("alertsLoad", "load", TRUE))
            /\ alertsView' = [AlertsInitial EXCEPT !.refreshSub = TRUE]
            /\ last' = Did("AlertsComponent.ngOnInit", "none", 0,
                           <<Get("/anomalies/")>>)
            /\ plotView' = PlotInitial
       [] route = "plot-details" /\ idValid ->
            /\ HasFreeSlot
            /\ pending' = Started(Orphaned(pending),
                                  CallFor("plotLoad", "load", TRUE,
                                          <<FirstPlotId>>, FALSE))
            /\ plotView' = [PlotInitial EXCEPT !.plotId = FirstPlotId]
            /\ last' = Did("PlotDetailsComponent.ngOnInit", "none", 0,
                           PlotRequests)
            /\ alertsView' = AlertsDestroyed(alertsView)
       [] route = "plot-details" /\ ~idValid ->
            /\ pending' = Orphaned(pending)
            /\ plotView' = [PlotInitial EXCEPT !.loading = FALSE,
                                               !.error = "Invalid plot ID"]
            /\ last' = Did("PlotDetailsComponent.ngOnInit", "none", 0, <<>>)
            /\ alertsView' = AlertsDestroyed(alertsView)

\* DashboardComponent.loadDashboardData, called again by the refresh timer.
loadDashboardData ==
  /\ mounted = "dashboard"
  /\ HasFreeSlot
  /\ pending' = Started(pending, Call("dashboardLoad", "load", TRUE))
  /\ last' = Did("DashboardComponent.loadDashboardData", "none", 0,
                 DashboardRequests)
  /\ UNCHANGED <<storage, isLoggedIn, userRole, currentUser, route, mounted,
                 alertsView, plotView, dashView>>

\* AlertsComponent.loadAnomalies, called again by the refresh timer.
loadAnomalies ==
  /\ mounted = "alerts"
  /\ HasFreeSlot
  /\ pending' = Started(pending, Call("alertsLoad", "load", TRUE))
  /\ alertsView' = [alertsView EXCEPT !.isLoading = TRUE, !.errorMessage = ""]
  /\ last' = Did("AlertsComponent.loadAnomalies", "none", 0,
                 <<Get("/anomalies/")>>)
  /\ UNCHANGED <<storage, isLoggedIn, userRole, currentUser, route, mounted,
                 plotView, dashView>>

\* A second passes on the mounted dashboard with no interval callback due.
\* While an interval runs, its callbacks are the seconds.
dashWait ==
  /\ dashView.refreshTimer
  /\ ~dashView.interval
  /\ dashView.orphan = None
  /\ dashView.elapsed < DashPeriod
  /\ dashView' = [dashView EXCEPT !.elapsed = @ + 1]
  /\ last' = Did("DashboardComponent.wait", "none", 0, <<>>)
  /\ UNCHANGED <<storage, isLoggedIn, userRole, currentUser, route, mounted,
                 pending, alertsView, plotView>>

\* A refresh timer with a period shorter than the countdown it starts.
dashTimer_shortPeriod ==
  /\ dashView.refreshTimer
  /\ dashView.elapsed >= DashCountdown - 2
  /\ dashView' = [dashView EXCEPT !.refreshCountdown = DashCountdown,
                                  !.interval = TRUE, !.elapsed = 0]
  /\ last' = Did("DashboardComponent.timer", "none", 0, <<>>)
  /\ UNCHANGED <<storage, isLoggedIn, userRole, currentUser, route, mounted,
                 pending, alertsView, plotView>>

\* DashboardComponent.ngOnInit: the callback of timer(30000, 30000), due 30
\* seconds after the subscription or the last callback, sets the countdown
\* to 5 and starts a one-second interval.
dashTimer ==
  /\ dashView.refreshTimer
  /\ dashView.elapsed = DashPeriod
  /\ dashView' = [dashView EXCEPT !.refreshCountdown = DashCountdown,
                                  !.interval = TRUE, !.elapsed = 0]
  /\ last' = Did("DashboardComponent.timer", "none", 0, <<>>)
  /\ UNCHANGED <<storage, isLoggedIn, userRole, currentUser, route, mounted,
                 pending, alertsView, plotView>>

\* The setInterval callback on the mounted dashboard: the countdown is
\* decremented; at zero the interval is cleared and loadDashboardData called.
dashInterval ==
  /\ dashView.interval
  /\ IF dashView.refreshCountdown - 1 <= 0
       THEN /\ HasFreeSlot
            /\ pending' = Started(pending, Call("dashboardLoad", "load", TRUE))
            /\ dashView' = [dashView EXCEPT !.refreshCountdown = @ - 1,
                                            !.interval = FALSE,
                                            !.elapsed = @ + 1]
            /\ last' = Event("DashboardComponent.interval", "none", 0,
                             DashboardRequests, None, TRUE, {"refreshCountdown"})
       ELSE /\ dashView' = [dashView EXCEPT !.refreshCountdown = @ - 1,
                                            !.elapsed = @ + 1]
            /\ last' = Event("DashboardComponent.interval", "none", 0, <<>>,
                             None, TRUE, {"refreshCountdown"})
            /\ UNCHANGED pending
  /\ UNCHANGED <<storage, isLoggedIn, userRole, currentUser, route, mounted,
                 alertsView, plotView>>

\* The seconds of a mounted dashboard after one more second.
Later(d) == IF d.refreshTimer THEN d.elapsed + 1 ELSE d.elapsed

\* The same callback of an interval whose instance was destroyed while it
\* ran: ngOnDestroy did not clear it, so it goes on decrementing the dead
\* instance's countdown and at zero calls its loadDashboardData.  A second
\* of the dashboard mounted meanwhile passes with it.
dashIntervalOrphan ==
  /\ dashView.orphan # None
  /\ IF dashView.orphan[1] - 1 <= 0
       THEN /\ HasFreeSlot
            /\ pending' = Started(pending, Call("dashboardLoad", "load", FALSE))
            /\ dashView' = [dashView EXCEPT !.orphan = None,
                                            !.elapsed = Later(dashView)]
            /\ last' = Event("DashboardComponent.interval", "none", 0,
                             DashboardRequests, None, FALSE, {"refreshCountdown"})
       ELSE /\ dashView' = [dashView EXCEPT !.orphan = Some(@[1] - 1),
                                            !.elapsed = Later(dashView)]
            /\ last' = Event("DashboardComponent.interval", "none", 0, <<>>,
                             None, FALSE, {"refreshCountdown"})
            /\ UNCHANGED pending
  /\ UNCHANGED <<storage, isLoggedIn, userRole, currentUser, route, mounted,
                 alertsView, plotView>>

\* A timer callback that refreshes only once the countdown is below zero.
alertsTick_firesBelowZero ==
  /\ alertsView.refreshSub
  /\ alertsView.ticks < MaxTicks
  /\ IF alertsView.refreshCountdown - 1 < 0
       THEN /\ HasFreeSlot
            /\ pending' = Started(pending, Call("alertsLoad", "load", TRUE))
            /\ alertsView' = [alertsView EXCEPT !.isLoading = TRUE,
                                                !.errorMessage = "",
                                                !.refreshCountdown = 30,
                                                !.ticks = @ + 1,
                                                !.fires = @ + 1]
            /\ last' = Did("AlertsComponent.tick", "none", 0,
                           <<Get("/anomalies/")>>)
       ELSE /\ alertsView' = [alertsView EXCEPT !.refreshCountdown = @ - 1,
                                                !.ticks = @ + 1]
            /\ last' = Did("AlertsComponent.tick", "none", 0, <<>>)
            /\ UNCHANGED pending
  /\ UNCHANGED <<storage, isLoggedIn, userRole, currentUser, route, mounted,
                 plotView, dashView>>

\* AlertsComponent.startAutoRefresh: the callback of timer(0, 1000).  The
\* countdown is decremented; at zero loadAnomalies is called and the
\* countdown set to 30 again, all within the callback.
alertsTick ==
  /\ alertsView.refreshSub
  /\ alertsView.ticks < MaxTicks
  /\ IF alertsView.refreshCountdown - 1 <= 0
       THEN /\ HasFreeSlot
            /\ pending' = Started(pending, Call("alertsLoad", "load", TRUE))
            /\ alertsView' = [alertsView EXCEPT !.isLoading = TRUE,
                                                !.errorMessage = "",
                                                !.refreshCountdown = 30,
                                                !.ticks = @ + 1,
                                                !.fires = @ + 1]
            /\ last' = Did("AlertsComponent.tick", "none", 0,
                           <<Get("/anomalies/")>>)
       ELSE /\ alertsView' = [alertsView EXCEPT !.refreshCountdown = @ - 1,
                                                !.ticks = @ + 1]
            /\ last' = Did("AlertsComponent.tick", "none", 0, <<>>)
            /\ UNCHANGED pending
  /\ UNCHANGED <<storage, isLoggedIn, userRole, currentUser, route, mounted,
                 plotView, dashView>>

\* PlotDetailsComponent: the route parameter changes while the view is
\* mounted.  A valid id resets the component and loads the plot; the load of
\* the previous id is not cancelled.
plotParams(id) ==
  /\ mounted = "plot-details"
  /\ IF id # 0
       THEN /\ HasFreeSlot
            /\ pending' = Started(pending,
                                  CallFor("plotLoad", "load", TRUE, <<id>>, FALSE))
            /\ plotView' = [PlotInitial EXCEPT !.plotId = id]
            /\ last' = Event("PlotDetailsComponent.loadPlotData", "none", 0,
                             PlotRequests, Some([id |-> id]), TRUE,
                             {"plotId", "plot", "anomalies", "selectedAnomaly",
                              "loading", "error"})
       ELSE /\ plotView' = [plotView EXCEPT !.plotId = 0,
                                            !.loading = FALSE,
                                            !.error = "Invalid plot ID"]
            /\ last' = Did("PlotDetailsComponent.params", "none", 0, <<>>)
            /\ UNCHANGED pending
  /\ UNCHANGED <<storage, isLoggedIn, userRole, currentUser, route, mounted,
                 alertsView, dashView>>

----------------------------------------------------------------------------
\* The completions of the views' calls

\* next handler of loadDashboardData: recentAnomalies is replaced by the
\* anomalies of the response, each with the recommendation text the backend
\* sent or null.
dashboardLoadOk(c, response) ==
  /\ c.kind = "dashboardLoad"
  /\ pending' = Completed(pending, c)
  /\ dashView' =
       IF c.live
         THEN [dashView EXCEPT !.recentAnomalies =
                 [k \in 1..Len(response) |->
                    [id |-> response[k], agent_recommendation |-> None]]]
         ELSE dashView
  /\ last' = Event("DashboardComponent.loadOk", "next", 200, <<>>,
                   Some(response), c.live, {"recentAnomalies"})
  /\ UNCHANGED <<storage, isLoggedIn, userRole, currentUser, route, mounted,
                 alertsView, plotView>>

\* DashboardComponent.generateRecommendation for the k-th recent anomaly.
dashboardGenerate(k) ==
  /\ mounted = "dashboard"
  /\ k \in 1..Len(dashView.recentAnomalies)
  /\ HasFreeSlot
  /\ pending' = Started(pending,
                        CallFor("dashboardGenerate", "generate", TRUE,
                                <<dashView.recentAnomalies[k].id>>, FALSE))
  /\ last' = Did("DashboardComponent.generateRecommendation", "none", 0,
                 <<Request("POST",
                           "/anomalies/"
                             \o ToString(dashView.recentAnomalies[k].id)
                             \o "/recommend/",
                           getHeaders(storage), "{}")>>)
  /\ UNCHANGED <<storage, isLoggedIn, userRole, currentUser, route, mounted,
                 alertsView, plotView, dashView>>

\* next handler: the entry with the anomaly's id gets the response's
\* recommended_action as it is, absent or not.
dashboardGenerateOk(c, response) ==
  /\ c.kind = "dashboardGenerate"
  /\ pending' = Completed(pending, c)
  /\ dashView' =
       IF c.live
         THEN [dashView EXCEPT !.recentAnomalies =
                 [k \in 1..Len(@) |->
                    IF @[k].id = c.ids[1]
                      THEN [@[k] EXCEPT !.agent_recommendation =
                                           response.recommended_action]
                      ELSE @[k]]]
         ELSE dashView
  /\ last' = Event("DashboardComponent.generateOk", "next", 200, <<>>,
                   Some([id |-> c.ids[1], inList |-> c.inList]), c.live,
                   {"agent_recommendation"})
  /\ UNCHANGED <<storage, isLoggedIn, userRole, currentUser, route, mounted,
                 alertsView, plotView>>

\* error handler: the failure is logged and shown in an alert box.
dashboardGenerateError(c, status) ==
  /\ c.kind = "dashboardGenerate"
  /\ pending' = Completed(pending, c)
  /\ last' = Event("DashboardComponent.generateError", "error", status, <<>>,
                   Some([id |-> c.ids[1], inList |-> c.inList]), c.live,
                   {"alert"})
  /\ UNCHANGED <<storage, isLoggedIn, userRole, currentUser, route, mounted,
                 alertsView, plotView, dashView>>

\* error handler of loadDashboardData: the error is written to the console
\* and a 401 calls DashboardComponent.logout; no field of the component is
\* assigned.
dashboardLoadError(c, status) ==
  /\ c.kind = "dashboardLoad"
  /\ pending' = Completed(pending, c)
  /\ IF status = 401
       THEN /\ storage' = ViewLogout(storage)
            /\ route' = "login"
       ELSE UNCHANGED <<storage, route>>
  /\ last' = Event("DashboardComponent.loadError", "error", status, <<>>, None,
                   c.live, {})
  /\ UNCHANGED <<isLoggedIn, userRole, currentUser, mounted, alertsView,
                 plotView, dashView>>

RecommendationRequests(ids) ==
  [k \in 1..Len(ids) |-> Get("/recommendations/?anomaly=" \o ToString(ids[k]))]

\* next handler of loadAnomalies: the list is replaced by the response, every
\* entry without recommendation, and loadExistingRecommendationsForAll asks
\* for the recommendations of all its anomalies in one forkJoin.
alertsLoadOk(c, response) ==
  /\ c.kind = "alertsLoad"
  /\ pending' =
       LET rest == IF c.live THEN Detached(Completed(pending, c))
                             ELSE Completed(pending, c)
       IN IF response # <<>>
            THEN Started(rest, CallFor("alertsRecs", "batch", c.live, response, FALSE))
            ELSE rest
  /\ alertsView' =
       IF c.live
         THEN [alertsView EXCEPT
                 !.anomalies = [k \in 1..Len(response) |->
                                  ViewAnomaly(ServerAnomaly(response[k]))],
                 !.isLoading = FALSE]
         ELSE alertsView
  /\ last' = Event("AlertsComponent.loadOk", "next", 200,
                   RecommendationRequests(response), Some(response), c.live,
                   {"anomalies", "isLoading"})
  /\ UNCHANGED <<storage, isLoggedIn, userRole, currentUser, route, mounted,
                 plotView, dashView>>

\* error handler of loadAnomalies: every status is shown as a message.
alertsLoadError(c, status) ==
  /\ c.kind = "alertsLoad"
  /\ pending' = Completed(pending, c)
  /\ alertsView' = IF c.live
                     THEN [alertsView EXCEPT
                             !.isLoading = FALSE,
                             !.errorMessage = "Failed to load alerts. Please try again."]
                     ELSE alertsView
  /\ last' = Event("AlertsComponent.loadError", "error", status, <<>>, None,
                   c.live, {"errorMessage", "isLoading"})
  /\ UNCHANGED <<storage, isLoggedIn, userRole, currentUser, route, mounted,
                 plotView, dashView>>

\* The recommendations a batch brought, as loadExistingRecommendationsForAll
\* receives them: a failed request counts as an empty answer (catchError).
BatchAnswer(ids, outcomes) ==
  [k \in 1..Len(ids) |-> IF outcomes[k] = "recommendation"
                           THEN <<BackendRecommendation(ids[k])>>
                           ELSE <<>>]

\* next handler of the forkJoin: the k-th answer, when not empty, is stored
\* on the k-th entry of the list the view has now.  An answer whose position
\* the list does not have makes the handler throw a TypeError.
alertsRecsOk(c, outcomes) ==
  /\ c.kind = "alertsRecs"
  /\ pending' = Completed(pending, c)
  /\ LET answers == BatchAnswer(c.ids, outcomes)
         list == alertsView.anomalies
         thrown == \E k \in 1..Len(answers) : answers[k] # <<>> /\ k > Len(list)
         written == IF \E k \in 1..Len(answers) : answers[k] # <<>>
                      THEN {"agent_recommendation"} ELSE {}
     IN /\ alertsView' =
             IF c.live
               THEN [alertsView EXCEPT !.anomalies =
                       [k \in 1..Len(list) |->
                          IF k <= Len(answers) /\ answers[k] # <<>>
                            THEN [list[k] EXCEPT !.agent_recommendation =
                                    Some(formatRecommendation(answers[k][1]))]
                            ELSE list[k]]]
               ELSE alertsView
        /\ last' = Event("AlertsComponent.recommendationsOk",
                         IF c.live /\ thrown THEN "TypeError" ELSE "next", 200,
                         <<>>, Some([ids |-> c.ids, outcomes |-> outcomes]),
                         c.live, written)
  /\ UNCHANGED <<storage, isLoggedIn, userRole, currentUser, route, mounted,
                 plotView, dashView>>

\* A generateRecommendation that looks at the anomaly's loading flag only.
generateRecommendation_flagOnly(k) ==
  /\ mounted = "alerts"
  /\ k \in 1..Len(alertsView.anomalies)
  /\ LET anomaly == alertsView.anomalies[k]
     IN IF anomaly.loadingRecommendation
          THEN /\ last' = Did("AlertsComponent.generateRecommendation",
                              "ignored", 0, <<>>)
               /\ UNCHANGED <<pending, alertsView>>
          ELSE /\ HasFreeSlot
               /\ pending' = Started(pending,
                                     CallFor("alertsGenerate", "generate", TRUE,
                                             <<anomaly.id>>, TRUE))
               /\ alertsView' =
                    [alertsView EXCEPT
                       !.anomalies[k].loadingRecommendation = TRUE,
                       !.processingAnomalies = @ \cup {anomaly.id}]
               /\ last' = Did("AlertsComponent.generateRecommendation", "none", 0,
                              <<Request("POST",
                                        "/anomalies/" \o ToString(anomaly.id)
                                          \o "/recommend/",
                                        getHeaders(storage), "{}")>>)
  /\ UNCHANGED <<storage, isLoggedIn, userRole, currentUser, route, mounted,
                 plotView, dashView>>

\* AlertsComponent.generateRecommendation on the k-th entry of the list.
generateRecommendation(k) ==
  /\ mounted = "alerts"
  /\ k \in 1..Len(alertsView.anomalies)
  /\ LET anomaly == alertsView.anomalies[k]
     IN IF anomaly.loadingRecommendation
             \/ anomaly.id \in alertsView.processingAnomalies
          THEN /\ last' = Did("AlertsComponent.generateRecommendation",
                              "ignored", 0, <<>>)
               /\ UNCHANGED <<pending, alertsView>>
          ELSE /\ HasFreeSlot
               /\ pending' = Started(pending,
                                     CallFor("alertsGenerate", "generate", TRUE,
                                             <<anomaly.id>>, TRUE))
               /\ alertsView' =
                    [alertsView EXCEPT
                       !.anomalies[k].loadingRecommendation = TRUE,
                       !.processingAnomalies = @ \cup {anomaly.id}]
               /\ last' = Did("AlertsComponent.generateRecommendation", "none", 0,
                              <<Request("POST",
                                        "/anomalies/" \o ToString(anomaly.id)
                                          \o "/recommend/",
                                        getHeaders(storage), "{}")>>)
  /\ UNCHANGED <<storage, isLoggedIn, userRole, currentUser, route, mounted,
                 plotView, dashView>>

\* ApiService.regenerateRecommendation: the same POST with the force flag in
\* its body.  No component calls it.
regenerateRecommendationRequest(s, id) ==
  Request("POST", "/anomalies/" \o ToString(id) \o "/recommend/",
          getHeaders(s), "{force_regenerate: true}")

\* AlertsComponent.regenerateRecommendation: the anomaly's recommendation is
\* cleared, then generateRecommendation runs on it, guard included.
regenerateRecommendation(k) ==
  /\ mounted = "alerts"
  /\ k \in 1..Len(alertsView.anomalies)
  /\ LET anomaly == alertsView.anomalies[k]
     IN IF anomaly.loadingRecommendation
             \/ anomaly.id \in alertsView.processingAnomalies
          THEN /\ alertsView' =
                    [alertsView EXCEPT !.anomalies[k].agent_recommendation = None]
               /\ last' = Event("AlertsComponent.regenerateRecommendation",
                                "ignored", 0, <<>>, Some([id |-> anomaly.id]),
                                TRUE, {"agent_recommendation"})
               /\ UNCHANGED pending
          ELSE /\ HasFreeSlot
               /\ pending' = Started(pending,
                                     CallFor("alertsGenerate", "generate", TRUE,
                                             <<anomaly.id>>, TRUE))
               /\ alertsView' =
                    [alertsView EXCEPT
                       !.anomalies[k].agent_recommendation = None,
                       !.anomalies[k].loadingRecommendation = TRUE,
                       !.processingAnomalies = @ \cup {anomaly.id}]
               /\ last' = Event("AlertsComponent.regenerateRecommendation",
                                "none", 0,
                                <<Request("POST",
                                          "/anomalies/" \o ToString(anomaly.id)
                                            \o "/recommend/",
                                          getHeaders(storage), "{}")>>,
                                Some([id |-> anomaly.id]), TRUE,
                                {"agent_recommendation", "loadingRecommendation",
                                 "processingAnomalies"})
  /\ UNCHANGED <<storage, isLoggedIn, userRole, currentUser, route, mounted,
                 plotView, dashView>>

\* Handlers of the generation call that leave the id in processingAnomalies.
alertsGenerateDone_keepsProcessing(c, op, outcome, status, response, recommendation) ==
  /\ c.kind = "alertsGenerate"
  /\ pending' = Completed(pending, c)
  /\ alertsView' =
       IF c.live
         THEN [alertsView EXCEPT
                 !.anomalies =
                    [k \in 1..Len(@) |->
                       IF c.inList /\ @[k].id = c.ids[1]
                         THEN [@[k] EXCEPT
                                 !.agent_recommendation = Some(recommendation),
                                 !.loadingRecommendation = FALSE]
                         ELSE @[k]],
                 !.generated = @ \cup {c.ids[1]}]
         ELSE alertsView
  /\ last' = Event(op, outcome, status, <<>>,
                   Some([id |-> c.ids[1], inList |-> c.inList,
                         response |-> response]), c.live,
                   {"agent_recommendation", "loadingRecommendation"})
  /\ UNCHANGED <<storage, isLoggedIn, userRole, currentUser, route, mounted,
                 plotView, dashView>>

\* Both handlers of the generation call: the recommendation is stored on the
\* anomaly object that generateRecommendation was called with, its loading
\* flag reset and its id taken out of processingAnomalies.
alertsGenerateDone(c, op, outcome, status, response, recommendation) ==
  /\ c.kind = "alertsGenerate"
  /\ pending' = Completed(pending, c)
  /\ alertsView' =
       IF c.live
         THEN [alertsView EXCEPT
                 !.anomalies =
                    [k \in 1..Len(@) |->
                       IF c.inList /\ @[k].id = c.ids[1]
                         THEN [@[k] EXCEPT
                                 !.agent_recommendation = Some(recommendation),
                                 !.loadingRecommendation = FALSE]
                         ELSE @[k]],
                 !.processingAnomalies = @ \ {c.ids[1]},
                 !.generated = @ \cup {c.ids[1]}]
         ELSE alertsView
  /\ last' = Event(op, outcome, status, <<>>,
                   Some([id |-> c.ids[1], inList |-> c.inList,
                         response |-> response]), c.live,
                   {"agent_recommendation", "loadingRecommendation",
                    "processingAnomalies"})
  /\ UNCHANGED <<storage, isLoggedIn, userRole, currentUser, route, mounted,
                 plotView, dashView>>

\* next handler: the normalized response is stored.
alertsGenerateOk(c, response) ==
  alertsGenerateDone(c, "AlertsComponent.generateOk", "next", 200, response,
                     formatRecommendation(response))

\* error handler: the fallback recommendation is stored.
alertsGenerateError(c, status) ==
  alertsGenerateDone(c, "AlertsComponent.generateError", "error", status,
                     EmptyPayload, getMockRecommendation(ServerAnomaly(c.ids[1])))

\* next handler of loadPlotData: the list is the response as it came, each
\* of its anomalies gets its own loadExistingRecommendation call, and a copy
\* of the first entry becomes the selected anomaly.
plotLoadOk(c, response) ==
  /\ c.kind = "plotLoad"
  /\ BagCardinality(Completed(pending, c)) + Len(response) <= MaxPending
  /\ pending' =
       Completed(pending, c)
         (+) SetToBag({CallFor("plotRec", "rec", c.live, <<response[k]>>, FALSE) :
                         k \in 1..Len(response)})
  /\ plotView' =
       IF c.live
         THEN [plotView EXCEPT
                 !.plot = Some(c.ids[1]),
                 !.anomalies = [k \in 1..Len(response) |->
                                  ViewAnomaly(ServerAnomaly(response[k]))],
                 !.selectedAnomaly =
                    IF response # <<>>
                      THEN Some(ViewAnomaly(ServerAnomaly(response[1])))
                      ELSE @,
                 !.loading = FALSE]
         ELSE plotView
  /\ last' = Event("PlotDetailsComponent.loadOk", "next", 200,
                   RecommendationRequests(response), Some(response), c.live,
                   {"plot", "anomalies", "selectedAnomaly", "loading"})
  /\ UNCHANGED <<storage, isLoggedIn, userRole, currentUser, route, mounted,
                 alertsView, dashView>>

\* error handler of loadPlotData: every status is shown as a message.
plotLoadError(c, status) ==
  /\ c.kind = "plotLoad"
  /\ pending' = Completed(pending, c)
  /\ plotView' = IF c.live
                   THEN [plotView EXCEPT
                           !.loading = FALSE,
                           !.error = "Error loading plot data. Please try again."]
                   ELSE plotView
  /\ last' = Event("PlotDetailsComponent.loadError", "error", status, <<>>, None,
                   c.live, {"error", "loading"})
  /\ UNCHANGED <<storage, isLoggedIn, userRole, currentUser, route, mounted,
                 alertsView, dashView>>

\* What loadExistingRecommendation stores: `a || b` of the two names of each
\* text (an undefined text is held as the empty text), confidence || 0.8.
existingRecommendation(recommendation) ==
  Recommendation(OrText(recommendation.recommended_action,
                        OrText(recommendation.action, "")),
                 OrText(recommendation.explanation_text,
                        OrText(recommendation.explanation, "")),
                 OrNumber(recommendation.confidence, 80), None)

\* next handler of PlotDetailsComponent.loadExistingRecommendation: the first
\* recommendation of the answer is stored on the entry with the anomaly's id
\* and, when that anomaly is the selected one, on the selected copy.
plotRecOk(c, recommendations) ==
  /\ c.kind = "plotRec"
  /\ pending' = Completed(pending, c)
  /\ plotView' =
       IF c.live /\ recommendations # <<>>
            /\ PositionsOf(plotView.anomalies, c.ids[1]) # {}
         THEN LET stored == Some(existingRecommendation(recommendations[1]))
                  first == CHOOSE k \in PositionsOf(plotView.anomalies, c.ids[1]) :
                             \A j \in PositionsOf(plotView.anomalies, c.ids[1]) :
                               k <= j
              IN [plotView EXCEPT
                    !.anomalies[first].agent_recommendation = stored,
                    !.selectedAnomaly =
                       IF @ # None /\ @[1].id = c.ids[1]
                         THEN Some([@[1] EXCEPT !.agent_recommendation = stored])
                         ELSE @]
         ELSE plotView
  /\ last' = Event("PlotDetailsComponent.recommendationOk", "next", 200, <<>>,
                   Some([id |-> c.ids[1], recommendations |-> recommendations]),
                   c.live, {"anomalies", "selectedAnomaly"})
  /\ UNCHANGED <<storage, isLoggedIn, userRole, currentUser, route, mounted,
                 alertsView, dashView>>

\* error handler of loadExistingRecommendation: the failure is logged.
plotRecError(c, status) ==
  /\ c.kind = "plotRec"
  /\ pending' = Completed(pending, c)
  /\ last' = Event("PlotDetailsComponent.recommendationError", "error", status,
                   <<>>, Some([id |-> c.ids[1]]), c.live, {})
  /\ UNCHANGED <<storage, isLoggedIn, userRole, currentUser, route, mounted,
                 alertsView, plotView, dashView>>

\* PlotDetailsComponent.selectAnomaly: a copy of the entry becomes the
\* selected anomaly.
selectAnomaly(k) ==
  /\ mounted = "plot-details"
  /\ k \in 1..Len(plotView.anomalies)
  /\ plotView' = [plotView EXCEPT !.selectedAnomaly = Some(plotView.anomalies[k])]
  /\ last' = Event("PlotDetailsComponent.selectAnomaly", "none", 0, <<>>,
                   Some([id |-> plotView.anomalies[k].id]), TRUE,
                   {"selectedAnomaly"})
  /\ UNCHANGED <<storage, isLoggedIn, userRole, currentUser, route, mounted,
                 pending, alertsView, dashView>>

\* PlotDetailsComponent.generateRecommendation: nothing when no anomaly is
\* selected or the selected one is loading; else the POST with an empty body.
plotGenerate ==
  /\ mounted = "plot-details"
  /\ IF plotView.selectedAnomaly = None
          \/ plotView.selectedAnomaly[1].loadingRecommendation
       THEN /\ last' = Did("PlotDetailsComponent.generateRecommendation",
                           "ignored", 0, <<>>)
            /\ UNCHANGED <<pending, plotView>>
       ELSE LET id == plotView.selectedAnomaly[1].id
            IN /\ HasFreeSlot
               /\ pending' = Started(pending,
                                     CallFor("plotGenerate", "generate", TRUE,
                                             <<id>>, FALSE))
               /\ plotView' =
                    [plotView EXCEPT
                       !.selectedAnomaly =
                          Some([@[1] EXCEPT !.loadingRecommendation = TRUE])]
               /\ last' = Event("PlotDetailsComponent.generateRecommendation",
                                "none", 0,
                                <<Request("POST",
                                          "/anomalies/" \o ToString(id)
                                            \o "/recommend/",
                                          getHeaders(storage), "{}")>>,
                                Some([id |-> id]), TRUE, {"selectedAnomaly"})
  /\ UNCHANGED <<storage, isLoggedIn, userRole, currentUser, route, mounted,
                 alertsView, dashView>>

\* The normalization the next handler of the plot-details generation does
\* in line: three formats, the second and third with fixed texts.
plotFormat(response) ==
  IF TruthyText(response.recommended_action)
    THEN Recommendation(response.recommended_action[1],
                        OrText(response.explanation_text,
                               "AI-generated recommendation"),
                        OrNumber(response.confidence, 80), None)
  ELSE IF TruthyText(response.recommendation)
    THEN Recommendation(response.recommendation[1], "Generated by AI agent",
                        70, None)
  ELSE Recommendation("Monitor anomaly and adjust irrigation",
                      "Temperature/moisture imbalance detected", 75, None)

\* The four recommendations the error handler draws from with Math.random.
plotMockRecommendations ==
  << [action |-> "Increase irrigation by 20% for 2 days",
      explanation |-> "Low soil moisture detected", confidence |-> 80],
     [action |-> "Reduce irrigation and check drainage",
      explanation |-> "Excess soil moisture", confidence |-> 75],
     [action |-> "Install temporary shade",
      explanation |-> "High temperature stress", confidence |-> 70],
     [action |-> "Monitor for frost protection",
      explanation |-> "Low temperature alert", confidence |-> 65] >>

\* What the error handler stores for the drawn entry: three fields, no source.
plotMock(choice) ==
  Recommendation(plotMockRecommendations[choice].action,
                 plotMockRecommendations[choice].explanation,
                 plotMockRecommendations[choice].confidence, None)

\* Both handlers of the plot-details generation call write to the anomaly
\* that is selected when they run; with no selection the write throws.  The
\* next handler also writes to the entry with the selected anomaly's id.
plotGenerateDone(c, op, status, response, recommendation, toList) ==
  /\ c.kind = "plotGenerate"
  /\ pending' = Completed(pending, c)
  /\ plotView' =
       IF c.live /\ plotView.selectedAnomaly # None
         THEN LET id == plotView.selectedAnomaly[1].id
                  at == PositionsOf(plotView.anomalies, id)
                  first == CHOOSE k \in at : \A j \in at : k <= j
              IN [plotView EXCEPT
                    !.selectedAnomaly =
                       Some([@[1] EXCEPT
                               !.agent_recommendation = Some(recommendation),
                               !.loadingRecommendation = FALSE]),
                    !.anomalies =
                       IF toList /\ at # {}
                         THEN [@ EXCEPT ![first].agent_recommendation =
                                               Some(recommendation)]
                         ELSE @,
                    !.fallback =
                       IF ~toList /\ @ = None
                         THEN Some([anomaly |-> ServerAnomaly(c.ids[1]),
                                    recommendation |-> recommendation])
                         ELSE @]
         ELSE plotView
  /\ last' = Event(op,
                   IF c.live /\ plotView.selectedAnomaly = None
                     THEN "TypeError"
                     ELSE IF status = 200 THEN "next" ELSE "error",
                   status, <<>>, Some([id |-> c.ids[1], response |-> response]),
                   c.live,
                   IF toList THEN {"selectedAnomaly", "anomalies"}
                             ELSE {"selectedAnomaly"})
  /\ UNCHANGED <<storage, isLoggedIn, userRole, currentUser, route, mounted,
                 alertsView, dashView>>

plotGenerateOk(c, response) ==
  plotGenerateDone(c, "PlotDetailsComponent.generateOk", 200, response,
                   plotFormat(response), TRUE)

plotGenerateError(c, status, choice) ==
  plotGenerateDone(c, "PlotDetailsComponent.generateError", status,
                   EmptyPayload, plotMock(choice), FALSE)

----------------------------------------------------------------------------
\* The logout handlers of the views

DashboardComponent_logout ==
  /\ mounted = "dashboard"
  /\ storage' = ViewLogout(storage)
  /\ route' = "login"
  /\ last' = Did("DashboardComponent.logout", "none", 0, <<>>)
  /\ UNCHANGED <<isLoggedIn, userRole, currentUser, mounted, pending,
                 alertsView, plotView, dashView>>

PlotDetailsComponent_logout ==
  /\ mounted = "plot-details"
  /\ storage' = ViewLogout(storage)
  /\ route' = "login"
  /\ last' = Did("PlotDetailsComponent.logout", "none", 0, <<>>)
  /\ UNCHANGED <<isLoggedIn, userRole, currentUser, mounted, pending,
                 alertsView, plotView, dashView>>

\* AlertsComponent.logout: AuthService.logout, then navigate to /login.
AlertsComponent_logout ==
  /\ mounted = "alerts"
  /\ SetSession([AuthLogout(Session) EXCEPT !.route = "login"])
  /\ last' = Did("AlertsComponent.logout", "none", 0, <<>>)
  /\ UNCHANGED <<mounted, pending, alertsView, plotView, dashView>>

----------------------------------------------------------------------------
Next ==
  \/ Reload
  \/ login
  \/ \E c \in InFlight, a \in AccessTokens, r \in RefreshTokens : loginTokenOk(c, a, r)
  \/ \E c \in InFlight, st \in ErrorStatuses : loginTokenError(c, st)
  \/ \E c \in InFlight, u \in Profiles : loginProfileOk(c, u)
  \/ \E c \in InFlight, st \in ErrorStatuses : loginProfileError(c, st)
  \/ refreshToken
  \/ \E c \in InFlight, a \in AccessTokens : refreshOk(c, a)
  \/ \E c \in InFlight, st \in ErrorStatuses : refreshError(c, st)
  \/ logout
  \/ ApiService_logout
  \/ \E r \in Routes : Navigate(r)
  \/ \E idValid \in BOOLEAN : Activate(idValid)
  \/ loadDashboardData
  \/ loadAnomalies
  \/ \E id \in {0, 1} : plotParams(id)
  \/ \E c \in InFlight, response \in {<<>>} : dashboardLoadOk(c, response)
  \/ \E c \in InFlight, st \in ErrorStatuses : dashboardLoadError(c, st)
  \/ \E c \in InFlight, response \in {<<>>} : alertsLoadOk(c, response)
  \/ \E c \in InFlight, st \in ErrorStatuses : alertsLoadError(c, st)
  \/ \E c \in InFlight, response \in {<<>>} : plotLoadOk(c, response)
  \/ \E c \in InFlight, st \in ErrorStatuses : plotLoadError(c, st)
  \/ DashboardComponent_logout
  \/ PlotDetailsComponent_logout
  \/ AlertsComponent_logout

Spec == Init /\ [][Next]_vars

\* The session with every profile the backend may send, the explicit profile
\* refresh, and the dashboard's calls through the API gateway.
NextProfile ==
  \/ login
  \/ \E c \in InFlight, a \in AccessTokens, r \in RefreshTokens : loginTokenOk(c, a, r)
  \/ \E c \in InFlight, st \in ErrorStatuses : loginTokenError(c, st)
  \/ \E c \in InFlight, u \in AllProfiles : loginProfileOk(c, u)
  \/ \E c \in InFlight, st \in ErrorStatuses : loginProfileError(c, st)
  \/ refreshToken
  \/ \E c \in InFlight, a \in AccessTokens : refreshOk(c, a)
  \/ \E c \in InFlight, st \in ErrorStatuses : refreshError(c, st)
  \/ logout
  \/ refreshUserProfile
  \/ \E c \in InFlight, u \in AllProfiles : refreshProfileOk(c, u)
  \/ \E c \in InFlight, st \in ErrorStatuses : refreshProfileError(c, st)
  \/ \E idValid \in {TRUE} : Activate(idValid)
  \/ loadDashboardData
  \/ \E c \in InFlight, response \in {<<>>} : dashboardLoadOk(c, response)
  \/ \E c \in InFlight, st \in ErrorStatuses : dashboardLoadError(c, st)

SpecProfile == Init /\ [][NextProfile]_vars

\* The alerts view with its refresh timer, entered and left by the router.
NextAlertsTimer ==
  \/ \E r \in {"login", "alerts"} : Navigate(r)
  \/ \E idValid \in {TRUE} : Activate(idValid)
  \/ alertsTick
  \/ \E c \in InFlight, response \in {<<>>} : alertsLoadOk(c, response)
  \/ \E c \in InFlight, st \in ErrorStatuses : alertsLoadError(c, st)

SpecAlertsTimer == Init /\ [][NextAlertsTimer]_vars

\* The dashboard view with its two timers, entered and left by the router.
NextDashboard ==
  \/ \E r \in {"login", "dashboard"} : Navigate(r)
  \/ \E idValid \in {TRUE} : Activate(idValid)
  \/ dashWait
  \/ dashTimer
  \/ dashInterval
  \/ dashIntervalOrphan
  \/ \E c \in InFlight, response \in {<<>>, <<1>>} : dashboardLoadOk(c, response)
  \/ \E k \in 1..Len(dashView.recentAnomalies) : dashboardGenerate(k)
  \/ \E c \in InFlight : \E response \in GenerationPayloads(Head(c.ids \o <<0>>)) :
       dashboardGenerateOk(c, response)
  \/ \E c \in InFlight, st \in ErrorStatuses : dashboardGenerateError(c, st)
  \/ \E c \in InFlight, st \in ErrorStatuses : dashboardLoadError(c, st)

SpecDashboard == Init /\ [][NextDashboard]_vars

\* The alerts view with its lists of anomalies and their recommendations;
\* loadAnomalies is called again by the timer.
NextAlerts ==
  \/ \E r \in {"login", "alerts"} : Navigate(r)
  \/ \E idValid \in {TRUE} : Activate(idValid)
  \/ loadAnomalies
  \/ \E c \in InFlight, response \in AnomalyLists : alertsLoadOk(c, response)
  \/ \E c \in InFlight, st \in ErrorStatuses : alertsLoadError(c, st)
  \/ \E c \in InFlight : \E outcomes \in [1..Len(c.ids) -> BatchOutcomes] :
       alertsRecsOk(c, outcomes)
  \/ \E k \in 1..Len(alertsView.anomalies) : generateRecommendation(k)
  \/ \E c \in InFlight : \E response \in GenerationPayloads(Head(c.ids \o <<0>>)) :
       alertsGenerateOk(c, response)
  \/ \E c \in InFlight, st \in ErrorStatuses : alertsGenerateError(c, st)

SpecAlerts == Init /\ [][NextAlerts]_vars

\* The two views that store recommendations, generating them with the
\* backend answering or failing.
NextSources ==
  \/ \E r \in {"alerts", "plot-details"} : Navigate(r)
  \/ \E idValid \in {TRUE} : Activate(idValid)
  \/ \E c \in InFlight, response \in {<<1>>} : alertsLoadOk(c, response)
  \/ \E c \in InFlight : \E outcomes \in [1..Len(c.ids) -> BatchOutcomes] :
       alertsRecsOk(c, outcomes)
  \/ \E k \in 1..Len(alertsView.anomalies) : generateRecommendation(k)
  \/ \E c \in InFlight : \E response \in GenerationPayloads(Head(c.ids \o <<0>>)) :
       alertsGenerateOk(c, response)
  \/ \E c \in InFlight, st \in ErrorStatuses : alertsGenerateError(c, st)
  \/ \E c \in InFlight, response \in {<<1>>} : plotLoadOk(c, response)
  \/ \E c \in InFlight :
       \E recommendations \in {<<>>, <<BackendRecommendation(Head(c.ids \o <<0>>))>>} :
         plotRecOk(c, recommendations)
  \/ plotGenerate
  \/ \E c \in InFlight : \E response \in GenerationPayloads(Head(c.ids \o <<0>>)) :
       plotGenerateOk(c, response)
  \/ \E c \in InFlight, st \in ErrorStatuses :
       \E choice \in 1..Len(plotMockRecommendations) : plotGenerateError(c, st, choice)

SpecSources == Init /\ [][NextSources]_vars

\* The plot-details view with its route parameter changing between plots.
NextPlot ==
  \/ \E r \in {"login", "plot-details"} : Navigate(r)
  \/ \E idValid \in BOOLEAN : Activate(idValid)
  \/ \E id \in {0, 1, 2} : plotParams(id)
  \/ \E c \in InFlight, response \in {<<>>, <<1>>, <<1, 2>>} : plotLoadOk(c, response)
  \/ \E c \in InFlight, st \in ErrorStatuses : plotLoadError(c, st)
  \/ \E c \in InFlight :
       \E recommendations \in {<<>>, <<BackendRecommendation(Head(c.ids \o <<0>>))>>} :
         plotRecOk(c, recommendations)
  \/ \E c \in InFlight, st \in ErrorStatuses : plotRecError(c, st)

SpecPlot == Init /\ [][NextPlot]_vars

\* The plot-details view generating recommendations for the anomaly that is
\* selected, the user selecting anomalies meanwhile.
NextPlotGenerate ==
  \/ \E r \in {"login", "plot-details"} : Navigate(r)
  \/ \E idValid \in {TRUE} : Activate(idValid)
  \/ \E c \in InFlight, response \in {<<1>>, <<1, 2>>} : plotLoadOk(c, response)
  \/ \E c \in InFlight :
       \E recommendations \in {<<>>, <<BackendRecommendation(Head(c.ids \o <<0>>))>>} :
         plotRecOk(c, recommendations)
  \/ \E c \in InFlight, st \in ErrorStatuses : plotRecError(c, st)
  \/ \E k \in 1..Len(plotView.anomalies) : selectAnomaly(k)
  \/ plotGenerate
  \/ \E c \in InFlight : \E response \in GenerationPayloads(Head(c.ids \o <<0>>)) :
       plotGenerateOk(c, response)
  \/ \E c \in InFlight, st \in ErrorStatuses :
       \E choice \in 1..Len(plotMockRecommendations) : plotGenerateError(c, st, choice)

SpecPlotGenerate == Init /\ [][NextPlotGenerate]_vars

\* The plot-details view storing recommendations for one anomaly, the
\* backend answering with every payload shape.
NextPlotNormalizer ==
  \/ \E r \in {"plot-details"} : Navigate(r)
  \/ \E idValid \in {TRUE} : Activate(idValid)
  \/ \E c \in InFlight, response \in {<<2>>} : plotLoadOk(c, response)
  \/ \E c \in InFlight :
       \E recommendations \in {<<>>} \cup {<<payload>> : payload \in AllPayloads} :
         plotRecOk(c, recommendations)
  \/ plotGenerate
  \/ \E c \in InFlight, response \in AllPayloads : plotGenerateOk(c, response)

SpecPlotNormalizer == Init /\ [][NextPlotNormalizer]_vars

\* The alerts view generating and regenerating recommendations while its
\* list is reloaded and the view is left and entered again.
NextProcessing ==
  \/ \E r \in {"login", "alerts"} : Navigate(r)
  \/ \E idValid \in {TRUE} : Activate(idValid)
  \/ loadAnomalies
  \/ \E c \in InFlight, response \in {<<1>>, <<1, 2>>} : alertsLoadOk(c, response)
  \/ \E c \in InFlight : \E outcomes \in [1..Len(c.ids) -> {"recommendation", "empty"}] :
       alertsRecsOk(c, outcomes)
  \/ \E k \in 1..Len(alertsView.anomalies) : generateRecommendation(k)
  \/ \E k \in 1..Len(alertsView.anomalies) : regenerateRecommendation(k)
  \/ \E c \in InFlight : \E response \in GenerationPayloads(Head(c.ids \o <<0>>)) :
       alertsGenerateOk(c, response)
  \/ \E c \in InFlight, st \in ErrorStatuses : alertsGenerateError(c, st)

SpecProcessing == Init /\ [][NextProcessing]_vars

\* The alerts view generating and regenerating recommendations.
NextRegenerate ==
  \/ \E r \in {"alerts"} : Navigate(r)
  \/ \E idValid \in {TRUE} : Activate(idValid)
  \/ \E c \in InFlight, response \in {<<1, 2>>} : alertsLoadOk(c, response)
  \/ \E c \in InFlight : \E outcomes \in [1..Len(c.ids) -> BatchOutcomes] :
       alertsRecsOk(c, outcomes)
  \/ \E k \in 1..Len(alertsView.anomalies) : generateRecommendation(k)
  \/ \E k \in 1..Len(alertsView.anomalies) : regenerateRecommendation(k)
  \/ \E c \in InFlight : \E response \in GenerationPayloads(Head(c.ids \o <<0>>)) :
       alertsGenerateOk(c, response)
  \/ \E c \in InFlight, st \in ErrorStatuses : alertsGenerateError(c, st)

SpecRegenerate == Init /\ [][NextRegenerate]_vars

\* The alerts view generating recommendations for one anomaly, the backend
\* answering with every payload shape.
NextNormalizer ==
  \/ \E r \in {"alerts"} : Navigate(r)
  \/ \E idValid \in {TRUE} : Activate(idValid)
  \/ \E c \in InFlight, response \in {<<2>>} : alertsLoadOk(c, response)
  \/ \E c \in InFlight : \E outcomes \in [1..Len(c.ids) -> BatchOutcomes] :
       alertsRecsOk(c, outcomes)
  \/ \E k \in 1..Len(alertsView.anomalies) : generateRecommendation(k)
  \/ \E c \in InFlight, response \in AllPayloads : alertsGenerateOk(c, response)

SpecNormalizer == Init /\ [][NextNormalizer]_vars

\* The alerts view showing any one anomaly of the backend, every generation
\* call failing.
NextFallback ==
  \/ \E r \in {"alerts"} : Navigate(r)
  \/ \E idValid \in {TRUE} : Activate(idValid)
  \/ \E c \in InFlight, id \in CatalogueIds : alertsLoadOk(c, <<id>>)
  \/ \E c \in InFlight : \E outcomes \in [1..Len(c.ids) -> BatchOutcomes] :
       alertsRecsOk(c, outcomes)
  \/ \E k \in 1..Len(alertsView.anomalies) : generateRecommendation(k)
  \/ \E c \in InFlight, st \in ErrorStatuses : alertsGenerateError(c, st)

SpecFallback == Init /\ [][NextFallback]_vars

----------------------------------------------------------------------------
\* Properties of the session lifecycle

Cleared(s) ==
  /\ getItem(s, tokenKey) = None
  /\ getItem(s, refreshKey) = None
  /\ getItem(s, userKey) = None

LoggedOut == ~isLoggedIn /\ userRole = "" /\ currentUser = None

ProfileOutstanding ==
  \E c \in InFlight : c.kind = "login" /\ c.phase = "profile"

LoginSteps ==
  {"login", "login.tokenOk", "login.tokenError", "login.profileOk",
   "login.profileError"}

LogoutPaths ==
  {"AuthService.logout", "ApiService.logout", "DashboardComponent.logout",
   "PlotDetailsComponent.logout", "AlertsComponent.logout"}

ViewLoadErrors ==
  {"DashboardComponent.loadError", "AlertsComponent.loadError",
   "PlotDetailsComponent.loadError"}

\* C1: after a login whose token exchange succeeded and whose profile fetch
\* failed, the session is logged out and neither the access token nor the
\* refresh token is left in storage.
C1_ProfileFailureRollsBack ==
  last.op = "login.profileError" =>
    /\ ~isLoggedIn
    /\ getItem(storage, tokenKey) = None
    /\ getItem(storage, refreshKey) = None

\* C2: in every reachable state, isLoggedIn$ = true implies that an access
\* token is present in storage.
C2_LoggedInHasToken == isLoggedIn => getItem(storage, tokenKey) # None

\* C3: after a view's load completes with a 401, the access and refresh
\* tokens are cleared and isLoggedIn$ is false.
C3_UnauthorizedForcesLogout ==
  (last.op \in ViewLoadErrors /\ last.status = 401) =>
    /\ getItem(storage, tokenKey) = None
    /\ getItem(storage, refreshKey) = None
    /\ ~isLoggedIn

\* C4: a login that fails at either phase delivers the error and no value to
\* its caller and leaves the session logged out (isLoggedIn$ false, userRole$
\* empty, currentUser$ null), whatever the state login was invoked in.
C4_FailedLoginLoggedOut ==
  last.op \in {"login.tokenError", "login.profileError"} =>
    /\ last.outcome = "error"
    /\ LoggedOut

\* C5 as stated: a step of login marks the session logged in, or writes a
\* token or the user to storage, only when it is the success of the profile
\* fetch.
C5_PersistOnlyAfterProfile ==
  [][ (/\ last'.op \in LoginSteps
       /\ \/ isLoggedIn' /\ ~isLoggedIn
          \/ \E k \in {tokenKey, refreshKey, userKey} :
               getItem(storage', k) # None /\ getItem(storage', k) # getItem(storage, k))
      => last'.op = "login.profileOk" ]_vars

\* C5 as amended: login marks the session logged in and writes the user with
\* its derived role only when the profile fetch has succeeded; the access and
\* refresh tokens are written when the token exchange succeeds, and by no
\* other step of login, so they are in storage while the profile fetch is
\* outstanding.
C5_TokensAtExchangeSessionAtProfile ==
  [][ last'.op \in LoginSteps =>
        /\ last'.op # "login.profileOk" =>
             /\ isLoggedIn' = isLoggedIn
             /\ userRole' = userRole
             /\ currentUser' = currentUser
             /\ getItem(storage', userKey) = getItem(storage, userKey)
        /\ last'.op = "login.profileOk" =>
             /\ isLoggedIn'
             /\ getItem(storage', userKey) # None
             /\ userRole' = JSON_parse(getItem(storage', userKey)[1]).role
             /\ getItem(storage', tokenKey) = getItem(storage, tokenKey)
             /\ getItem(storage', refreshKey) = getItem(storage, refreshKey)
        /\ last'.op = "login.tokenOk" =>
             /\ getItem(storage', tokenKey) # None
             /\ getItem(storage', refreshKey) # None
             /\ \E c \in BagToSet(pending') : c.kind = "login" /\ c.phase = "profile"
        /\ last'.op \notin {"login.tokenOk", "login.profileOk"} =>
             /\ getItem(storage', tokenKey) = getItem(storage, tokenKey)
             /\ getItem(storage', refreshKey) = getItem(storage, refreshKey) ]_vars

\* The token exchange has just succeeded: tokens are stored, the profile
\* fetch is outstanding and the session is not logged in.
C5_Witness ==
  /\ last.op = "login.tokenOk"
  /\ ProfileOutstanding
  /\ getItem(storage, tokenKey) # None
  /\ getItem(storage, refreshKey) # None
  /\ ~isLoggedIn

\* C6: AuthService.logout is idempotent: in the state a logout leaves, a
\* second logout changes neither storage nor isLoggedIn$, userRole$,
\* currentUser$ nor the route.
C6_LogoutIdempotent ==
  last.op = "AuthService.logout" => AuthLogout(Session) = Session

\* A logout has run while a call was still in flight.
C6_Witness ==
  /\ last.op = "AuthService.logout"
  /\ pending # NoCalls
  /\ Cleared(storage)
  /\ LoggedOut

\* C7: every logout path leaves the access token, the refresh token and the
\* serialized user all absent.
C7_LogoutClearsTogether == last.op \in LogoutPaths => Cleared(storage)

\* C8: refreshToken called with no refresh token in storage logs out
\* (storage cleared, isLoggedIn$ false), fails with an error and issues no
\* network request.
C8_NoRefreshTokenForcesLogout ==
  [][ (/\ last'.op \in {"refreshToken", "refreshToken.noToken"}
       /\ getItem(storage, refreshKey) = None)
      => /\ Cleared(storage')
         /\ ~isLoggedIn' /\ userRole' = "" /\ currentUser' = None
         /\ route' = "login"
         /\ last'.outcome = "error"
         /\ last'.reqs = <<>>
         /\ pending' = pending ]_vars

\* refreshToken has just found no refresh token in storage and failed.
C8_Witness ==
  /\ last.op = "refreshToken.noToken"
  /\ Cleared(storage)
  /\ LoggedOut
  /\ last.outcome = "error"

\* C9: when the refresh request fails, the session is logged out (storage
\* cleared, isLoggedIn$ false), the error reaches the caller, and the call is
\* over: no refresh request is sent again.
C9_RefreshFailureForcesLogout ==
  [][ last'.op = "refreshToken.error" =>
        /\ Cleared(storage')
        /\ ~isLoggedIn' /\ userRole' = "" /\ currentUser' = None
        /\ route' = "login"
        /\ last'.outcome = "error"
        /\ last'.status \in ErrorStatuses
        /\ last'.reqs = <<>>
        /\ BagCardinality(pending') = BagCardinality(pending) - 1
        /\ CountOf(pending', Call("refresh", "refresh", FALSE))
             = CountOf(pending, Call("refresh", "refresh", FALSE)) - 1 ]_vars

\* A refresh has just failed and no refresh call is left in flight.
C9_Witness ==
  /\ last.op = "refreshToken.error"
  /\ last.outcome = "error"
  /\ Cleared(storage)
  /\ LoggedOut
  /\ \A c \in InFlight : c.kind # "refresh"

\* C10: right after construction the session is logged in exactly when an
\* access token and a user are both in storage, with userRole$ and
\* currentUser$ taken from the stored user; otherwise it is logged out and
\* anonymous; no request has been issued.
C10_Rehydration ==
  last.op = "constructor" =>
    /\ isLoggedIn <=> (getItem(storage, tokenKey) # None
                       /\ getItem(storage, userKey) # None)
    /\ isLoggedIn =>
         /\ currentUser = Some(JSON_parse(getItem(storage, userKey)[1]))
         /\ userRole = JSON_parse(getItem(storage, userKey)[1]).role
    /\ ~isLoggedIn => userRole = "" /\ currentUser = None
    /\ last.reqs = <<>>
    /\ pending = NoCalls

\* The process has started on a storage holding a token and a user.
C10_Witness ==
  /\ last.op = "constructor"
  /\ isLoggedIn
  /\ currentUser # None
  /\ userRole = "admin"

----------------------------------------------------------------------------
\* Role derivation and the Authorization header

ProfileFetches == {"login.profileOk", "refreshUserProfile.ok"}

\* The steps that send requests through ApiService or with getAuthHeaders.
GatewayCalls ==
  {"refreshUserProfile", "DashboardComponent.ngOnInit",
   "DashboardComponent.loadDashboardData", "AlertsComponent.ngOnInit",
   "AlertsComponent.loadAnomalies", "PlotDetailsComponent.ngOnInit",
   "PlotDetailsComponent.loadPlotData"}

\* C11: for every profile fetched by login or refreshUserProfile, the user
\* stored (in storage and in currentUser$) has role "admin" if the payload's
\* is_staff or is_superuser is true and "farmer" otherwise, whatever role the
\* payload carries; the payload's other fields are stored as sent.
C11_RoleDerivedFromFlags ==
  last.op \in ProfileFetches =>
    /\ getItem(storage, userKey) # None
    /\ LET sent == last.input[1]
           stored == JSON_parse(getItem(storage, userKey)[1])
       IN /\ stored.role = IF sent.is_staff = TRUE \/ sent.is_superuser = TRUE
                             THEN "admin" ELSE "farmer"
          /\ stored.username = sent.username
          /\ stored.is_staff = sent.is_staff
          /\ stored.is_superuser = sent.is_superuser
          /\ currentUser = Some(stored)
          /\ last.op = "login.profileOk" => userRole = stored.role

\* refreshUserProfile has just stored a superuser whose payload said
\* "farmer": the stored role is "admin".
C11_Witness ==
  /\ last.op = "refreshUserProfile.ok"
  /\ last.input[1].role = "farmer"
  /\ ~last.input[1].is_staff /\ last.input[1].is_superuser
  /\ JSON_parse(getItem(storage, userKey)[1]).role = "admin"

\* C12: every request of an API gateway call (and of refreshUserProfile)
\* carries "Bearer " followed by the access token that is in storage when
\* the call is made, whatever writes of the token came before; with no token
\* in storage ApiService sends an empty Authorization header and
\* getAuthHeaders sends "Bearer null".
C12_HeaderReadAtCallTime ==
  [][ last'.op \in GatewayCalls =>
        \A i \in 1..Len(last'.reqs) :
          IF getItem(storage, tokenKey) # None
            THEN last'.reqs[i].auth = "Bearer " \o getItem(storage, tokenKey)[1]
            ELSE last'.reqs[i].auth \in {"", "Bearer null"} ]_vars

\* The dashboard has just been loaded again with the rotated token "a2" while
\* an earlier load of it is still outstanding.
C12_Witness ==
  /\ last.op = "DashboardComponent.loadDashboardData"
  /\ getItem(storage, tokenKey) = Some("a2")
  /\ \A i \in 1..Len(last.reqs) : last.reqs[i].auth = "Bearer a2"
  /\ CountOf(pending, Call("dashboardLoad", "load", TRUE)) = 2

\* C13: a call made while no access token is in storage leaves the session
\* logged out: storage cleared and isLoggedIn$ false.
C13_NoTokenCallForcesLogout ==
  (/\ last.op \in GatewayCalls
   /\ last.reqs # <<>>
   /\ getItem(storage, tokenKey) = None)
  => Cleared(storage) /\ ~isLoggedIn

----------------------------------------------------------------------------
\* The refresh schedulers

C15_NoTickAfterDestroy ==
  /\ mounted # "alerts" => ~alertsView.refreshSub
  /\ last.op = "AlertsComponent.tick" => mounted = "alerts"

\* The alerts view has been destroyed while a refresh started by its timer
\* was outstanding; the timer is off.
C15_Witness ==
  /\ last.op = "LoginComponent"
  /\ mounted = "login"
  /\ ~alertsView.refreshSub
  /\ Call("alertsLoad", "load", FALSE) \in InFlight

DashboardTimerSteps == {"DashboardComponent.timer", "DashboardComponent.interval"}

\* C16: after the dashboard's ngOnDestroy no timer callback of the destroyed
\* instance runs: neither the 30-second timer nor a countdown interval
\* already started changes refreshCountdown or calls loadDashboardData.
C16_NoDashboardTickAfterDestroy ==
  last.op \in DashboardTimerSteps => last.onLive

----------------------------------------------------------------------------
\* Recommendations in the views

GenerationCompletions ==
  {"AlertsComponent.generateOk", "AlertsComponent.generateError",
   "DashboardComponent.generateOk", "DashboardComponent.generateError"}

\* C17: a generation call that completes after its view was torn down writes
\* nothing: no recommendation, no loading flag, nothing the user sees.
C17_NoWriteAfterTeardown ==
  (last.op \in GenerationCompletions /\ ~last.onLive) => last.writes = {}

\* C18: in the alerts view every stored recommendation of the backend was
\* fetched for the anomaly at whose position it is stored, and no batch
\* completion writes to a position the list does not have.
C18_RecommendationsMatchPositions ==
  /\ \A k \in 1..Len(alertsView.anomalies) :
       LET anomaly == alertsView.anomalies[k]
       IN anomaly.agent_recommendation # None =>
            \A id \in {1, 2} :
              anomaly.agent_recommendation[1].recommended_action = ActionFor(id)
                => id = anomaly.id
  /\ last.outcome # "TypeError"

\* C19: after a batch of recommendation fetches has completed on the mounted
\* alerts view, failed requests have not failed the batch, and every anomaly
\* whose request brought a recommendation carries it.
C19_BatchFailuresIsolated ==
  (last.op = "AlertsComponent.recommendationsOk" /\ last.onLive) =>
    /\ last.outcome = "next"
    /\ \A k \in 1..Len(last.input[1].ids) :
         last.input[1].outcomes[k] = "recommendation" =>
           \E j \in PositionsOf(alertsView.anomalies, last.input[1].ids[k]) :
             alertsView.anomalies[j].agent_recommendation
               = Some(formatRecommendation(
                        BackendRecommendation(last.input[1].ids[k])))

\* C20: once a generation call has completed on a mounted view, with success
\* or with failure, the anomaly it was made for carries a non-empty
\* recommendation, and no failure has been shown to the user instead.
C20_AlwaysARecommendation ==
  /\ (/\ last.op \in {"AlertsComponent.generateOk", "AlertsComponent.generateError"}
      /\ last.onLive /\ last.input[1].inList)
     => \A k \in PositionsOf(alertsView.anomalies, last.input[1].id) :
          /\ alertsView.anomalies[k].agent_recommendation # None
          /\ alertsView.anomalies[k].agent_recommendation[1].recommended_action # ""
  /\ (/\ last.op \in {"DashboardComponent.generateOk",
                       "DashboardComponent.generateError"}
      /\ last.onLive)
     => /\ "alert" \notin last.writes
        /\ \A k \in PositionsOf(dashView.recentAnomalies, last.input[1].id) :
             TruthyText(dashView.recentAnomalies[k].agent_recommendation)

----------------------------------------------------------------------------
\* The normalizer and the fallback generator

\* The recommendation the mounted alerts view has just stored for the anomaly
\* its generation call was made for.
JustStored ==
  alertsView.anomalies[CHOOSE k \in PositionsOf(alertsView.anomalies,
                                                last.input[1].id) : TRUE]
    .agent_recommendation[1]

NormalizedNow ==
  /\ last.op = "AlertsComponent.generateOk"
  /\ last.onLive /\ last.input[1].inList

FallbackNow ==
  /\ last.op = "AlertsComponent.generateError"
  /\ last.onLive /\ last.input[1].inList

\* C22: the canonical action is the value of the first of recommended_action,
\* recommendation, action that is set (present and not empty), and the fixed
\* default text when none is.
C22_ActionFirstMatch ==
  NormalizedNow =>
    LET response == last.input[1].response
        IsSet(x) == x # None /\ x[1] # ""
    IN JustStored.recommended_action =
         IF IsSet(response.recommended_action) THEN response.recommended_action[1]
         ELSE IF IsSet(response.recommendation) THEN response.recommendation[1]
         ELSE IF IsSet(response.action) THEN response.action[1]
         ELSE "Monitor anomaly and adjust farming practices"

\* A payload with recommended_action and recommendation both set has been
\* normalized: the action is recommended_action's.
C22_Witness ==
  /\ NormalizedNow
  /\ last.input[1].response.recommended_action = Some("from recommended_action")
  /\ last.input[1].response.recommendation = Some("from recommendation")
  /\ JustStored.recommended_action = "from recommended_action"

\* C23: the canonical explanation is explanation_text when set, else
\* explanation when set, else a default text, whichever action branch matched.
C23_ExplanationFirstMatch ==
  NormalizedNow =>
    LET response == last.input[1].response
        IsSet(x) == x # None /\ x[1] # ""
    IN IF IsSet(response.explanation_text)
         THEN JustStored.explanation_text = response.explanation_text[1]
       ELSE IF IsSet(response.explanation)
         THEN JustStored.explanation_text = response.explanation[1]
       ELSE JustStored.explanation_text \in
              {"AI-generated recommendation", "Generated by AI agent",
               "AI analysis completed", "Temperature/moisture imbalance detected"}

\* C24: without a confidence in the payload the canonical confidence is the
\* default of the branch that matched (0.8, 0.7, 0.75, 0.75); a confidence in
\* the payload is passed through unchanged.
C24_ConfidenceDefaults ==
  NormalizedNow =>
    LET response == last.input[1].response
        IsSet(x) == x # None /\ x[1] # ""
    IN IF response.confidence # None
         THEN JustStored.confidence = response.confidence[1]
       ELSE JustStored.confidence =
              IF IsSet(response.recommended_action) THEN 80
              ELSE IF IsSet(response.recommendation) THEN 70
              ELSE 75

\* The anomaly the fallback recommendation has just been stored on.
FallbackAnomaly ==
  alertsView.anomalies[CHOOSE k \in PositionsOf(alertsView.anomalies,
                                                last.input[1].id) : TRUE]

\* The words of the lower-cased type text of an anomaly.
LowerCased(anomaly) ==
  IF anomaly.anomaly_type # None
    THEN {toLowerCase(word) : word \in anomaly.anomaly_type[1]}
    ELSE {}

\* The type rules an anomaly satisfies, numbered in the order moisture+low,
\* moisture+high, temperature+high, temperature+low, humidity+high.
RulesMet(anomaly) ==
  LET type == LowerCased(anomaly)
  IN {n \in 1..5 :
        \/ n = 1 /\ "moisture" \in type /\ "low" \in type
        \/ n = 2 /\ "moisture" \in type /\ "high" \in type
        \/ n = 3 /\ "temperature" \in type /\ "high" \in type
        \/ n = 4 /\ "temperature" \in type /\ "low" \in type
        \/ n = 5 /\ "humidity" \in type /\ "high" \in type}

\* C25: for an anomaly of type "low_soil_moisture" the fallback generator
\* gives "Increase irrigation by 20-30% for the next 48 hours" with
\* confidence 0.85, whatever the severity.
C25_LowSoilMoisture ==
  (FallbackNow /\ FallbackAnomaly.anomaly_type = Some({"low", "soil", "moisture"}))
  => /\ JustStored.recommended_action
          = "Increase irrigation by 20-30% for the next 48 hours"
     /\ JustStored.confidence = 85

\* The fallback has been generated for a "low_soil_moisture" anomaly of high
\* severity.
C25_Witness ==
  /\ FallbackNow
  /\ FallbackAnomaly.anomaly_type = Some({"low", "soil", "moisture"})
  /\ FallbackAnomaly.severity = Some("high")
  /\ JustStored.confidence = 85

\* C26: when the lower-cased type satisfies several rules, the fallback is
\* the action, explanation and confidence of the earliest of them.
C26_FirstRuleWins ==
  (FallbackNow /\ Cardinality(RulesMet(FallbackAnomaly)) >= 2) =>
    LET first == CHOOSE n \in RulesMet(FallbackAnomaly) :
                   \A m \in RulesMet(FallbackAnomaly) : n <= m
    IN /\ JustStored.recommended_action = mockRecommendations[first].action
       /\ JustStored.explanation_text = mockRecommendations[first].explanation
       /\ JustStored.confidence = mockRecommendations[first].confidence

\* The fallback has been generated for an anomaly written "Moisture LOW
\* high", which meets the first two rules: the first one's action is stored.
C26_Witness ==
  /\ FallbackNow
  /\ FallbackAnomaly.anomaly_type = Some({"Moisture", "LOW", "high"})
  /\ RulesMet(FallbackAnomaly) = {1, 2}
  /\ JustStored.recommended_action
       = "Increase irrigation by 20-30% for the next 48 hours"

\* C27: when no type rule matches, the fallback is the entry of the severity
\* in the default table, the medium entry for an unknown or absent severity.
C27_SeverityDefault ==
  (FallbackNow /\ RulesMet(FallbackAnomaly) = {}) =>
    LET severity == FallbackAnomaly.severity
    IN /\ JustStored.recommended_action =
            IF severity = Some("high")
              THEN "Immediate field inspection required. Consider emergency measures."
            ELSE IF severity = Some("low")
              THEN "Monitor trend and adjust during next regular maintenance."
            ELSE "Schedule inspection within 24 hours and adjust practices."
       /\ JustStored.confidence =
            IF severity = Some("high") THEN 90
            ELSE IF severity = Some("low") THEN 65 ELSE 75

\* The fallback has been generated for an anomaly without type whose
\* severity is not in the table.
C27_Witness ==
  /\ FallbackNow
  /\ FallbackAnomaly.anomaly_type = None
  /\ FallbackAnomaly.severity = Some("critical")
  /\ JustStored.confidence = 75

-----------------------------------------------------------------------------
\* Regeneration

\* C28: a regeneration that issues a request issues the POST to
\* /anomalies/{id}/recommend/ with force_regenerate: true in its body, and a
\* plain generation issues it with an empty body.
C28_RegenerateCarriesForceFlag ==
  /\ (last.op = "AlertsComponent.regenerateRecommendation" /\ last.reqs # <<>>)
       => last.reqs = <<regenerateRecommendationRequest(storage, last.input[1].id)>>
  /\ (last.op = "AlertsComponent.generateRecommendation" /\ last.reqs # <<>>)
       => last.reqs[1].body = "{}"

\* C30: in the alerts view, every entry of the current list whose anomaly a
\* generation call of this view has completed for, with a backend or with a
\* fallback recommendation, carries a recommendation, whatever reloads of
\* the list happened before or after the call completed.
C30_GeneratedRecommendationKept ==
  mounted = "alerts" =>
    \A k \in 1..Len(alertsView.anomalies) :
      alertsView.anomalies[k].id \in alertsView.generated
        => alertsView.anomalies[k].agent_recommendation # None

-----------------------------------------------------------------------------
\* Failed loads

\* The fields a view shows an error message with.
MessageFields == {"errorMessage", "error"}

\* C29: when the load of a mounted alerts, plot-details or dashboard view
\* fails with a status other than 401, the handler leaves the view not
\* loading and with a non-empty error message; the alerts view keeps its
\* refresh timer, its next refresh clears the message and a successful one
\* replaces the list.
C29_LoadFailureShown ==
  /\ (last.op = "AlertsComponent.loadError" /\ last.status # 401 /\ last.onLive)
       => /\ ~alertsView.isLoading
          /\ alertsView.errorMessage # ""
          /\ alertsView.refreshSub
  /\ last.op = "AlertsComponent.loadAnomalies" => alertsView.errorMessage = ""
  /\ (last.op = "AlertsComponent.loadOk" /\ last.onLive)
       => /\ ~alertsView.isLoading
          /\ alertsView.anomalies
               = [k \in 1..Len(last.input[1]) |->
                    ViewAnomaly(ServerAnomaly(last.input[1][k]))]
  /\ (last.op = "PlotDetailsComponent.loadError" /\ last.status # 401 /\ last.onLive)
       => /\ ~plotView.loading
          /\ plotView.error # ""
  /\ (last.op = "DashboardComponent.loadError" /\ last.status # 401 /\ last.onLive)
       => last.writes \cap MessageFields # {}

-----------------------------------------------------------------------------
\* The source of a stored recommendation

FallbackSource == Some("ai_agent_mock")

\* C21: the recommendation a view stores when a generation call has failed
\* carries the fallback source flag, and the recommendation it stores from
\* a backend response does not.
C21_SourcesDistinguishable ==
  /\ (/\ last.op \in {"AlertsComponent.generateOk", "AlertsComponent.generateError"}
      /\ last.onLive /\ last.input[1].inList)
       => \A k \in PositionsOf(alertsView.anomalies, last.input[1].id) :
            (alertsView.anomalies[k].agent_recommendation[1].source = FallbackSource)
              <=> (last.op = "AlertsComponent.generateError")
  /\ (/\ last.op \in {"PlotDetailsComponent.generateOk",
                      "PlotDetailsComponent.generateError"}
      /\ last.onLive /\ last.outcome # "TypeError")
       => ((plotView.selectedAnomaly[1].agent_recommendation[1].source
              = FallbackSource)
             <=> (last.op = "PlotDetailsComponent.generateError"))

-----------------------------------------------------------------------------
\* The dashboard's refresh countdown

\* C32: a callback of the dashboard's 30-second timer finds no countdown
\* running, of this or of a destroyed instance, and starts one at 5; each
\* callback of the countdown decrements it by one, calls loadDashboardData
\* when it reaches 0 and only then, and then the countdown has stopped;
\* refreshCountdown is always within 0..5.
C32_CountdownSequential ==
  [][/\ dashView'.refreshCountdown \in 0..DashCountdown
     /\ last'.op = "DashboardComponent.timer"
          => /\ ~dashView.interval
             /\ dashView.orphan = None
             /\ dashView'.interval
             /\ dashView'.refreshCountdown = DashCountdown
     /\ (last'.op = "DashboardComponent.interval" /\ last'.onLive)
          => /\ dashView.interval
             /\ dashView'.refreshCountdown = dashView.refreshCountdown - 1
             /\ (last'.reqs = DashboardRequests)
                  <=> (dashView'.refreshCountdown = 0)
             /\ last'.reqs # <<>> => CountOf(pending', Call("dashboardLoad", "load", TRUE))
                                       = CountOf(pending, Call("dashboardLoad", "load", TRUE)) + 1
             /\ last'.reqs \in {<<>>, DashboardRequests}
             /\ dashView'.interval <=> (dashView'.refreshCountdown > 0)]_vars

C32_Witness ==
  /\ last.op = "DashboardComponent.interval"
  /\ last.onLive
  /\ last.reqs = DashboardRequests
  /\ dashView.refreshCountdown = 0
  /\ ~dashView.interval
  /\ dashView.elapsed = DashCountdown

-----------------------------------------------------------------------------
\* The observable role

\* C33: whenever the session is logged in, userRole$ holds the role of the
\* user currentUser$ holds.
C33_RoleMatchesUser ==
  isLoggedIn => /\ currentUser # None
                /\ userRole = currentUser[1].role

-----------------------------------------------------------------------------
\* Logout and a refresh in flight

\* C35: once the access token is gone from storage (a logout removed it),
\* only the token exchange of a login stores one again; in particular the
\* completion of a refresh request that was in flight at the logout does not.
C35_NoTokenAfterLogout ==
  [][ (getItem(storage, tokenKey) = None /\ getItem(storage', tokenKey) # None)
        => last'.op = "login.tokenOk" ]_vars

-----------------------------------------------------------------------------
\* Generation in the plot-details view

PlotGenerationCompletions ==
  {"PlotDetailsComponent.generateOk", "PlotDetailsComponent.generateError"}

\* C36: when a generation call of the plot-details view completes, the
\* anomaly that receives the recommendation (the selected copy, and the list
\* entry written with it) is the anomaly the request was made for.
C36_RecommendationForRequestedAnomaly ==
  (/\ last.op \in PlotGenerationCompletions
   /\ last.onLive /\ last.outcome # "TypeError")
    => plotView.selectedAnomaly[1].id = last.input[1].id

\* Two anomalies of the same type and severity.
SameKind(a, b) == a.anomaly_type = b.anomaly_type /\ a.severity = b.severity

\* C34: a view stores a fallback recommendation only when its generation call
\* has failed, and what it stores depends on the type and the severity of
\* the anomaly only: in the alerts view it is the rule table's result for
\* them, and in the plot-details view it is what the view stored for the
\* first failed call for an anomaly of that type and severity.
C34_FallbackDeterministic ==
  /\ (/\ last.op \in {"AlertsComponent.generateOk", "AlertsComponent.generateError"}
      /\ last.onLive /\ last.input[1].inList)
       => \A k \in PositionsOf(alertsView.anomalies, last.input[1].id) :
            alertsView.anomalies[k].agent_recommendation
              = IF last.op = "AlertsComponent.generateError"
                  THEN Some(getMockRecommendation(
                              Anomaly(0, alertsView.anomalies[k].anomaly_type,
                                      alertsView.anomalies[k].severity)))
                  ELSE Some(formatRecommendation(last.input[1].response))
  /\ (/\ last.op = "PlotDetailsComponent.generateOk"
      /\ last.onLive /\ last.outcome # "TypeError")
       => plotView.selectedAnomaly[1].agent_recommendation
            = Some(plotFormat(last.input[1].response))
  /\ (/\ last.op = "PlotDetailsComponent.generateError"
      /\ last.onLive /\ last.outcome # "TypeError"
      /\ SameKind(plotView.fallback[1].anomaly, ServerAnomaly(last.input[1].id)))
       => plotView.selectedAnomaly[1].agent_recommendation
            = Some(plotView.fallback[1].recommendation)

-----------------------------------------------------------------------------
\* Loads of the plot-details view

\* The loads the mounted plot-details view is waiting for.
PlotLoadsInFlight == {c \in InFlight : c.kind = "plotLoad" /\ c.live}

\* C31: once every load of the mounted plot-details view has completed, the
\* plot data the view holds (plot, sensorReadings, anomalies) is the data
\* fetched for the plot id of the route, whatever the order in which the
\* loads of earlier ids completed.
C31_LateLoadDiscarded ==
  (/\ mounted = "plot-details"
   /\ plotView.plotId # 0
   /\ PlotLoadsInFlight = {}
   /\ plotView.plot # None)
    => plotView.plot = Some(plotView.plotId)

-----------------------------------------------------------------------------
\* The two normalizers

\* C39: what the plot-details view stores for a backend payload, from a
\* generation response or from an existing recommendation, has the action,
\* explanation and confidence AlertsComponent.formatRecommendation gives for
\* the same payload.
C39_NormalizersAgree ==
  /\ (/\ last.op = "PlotDetailsComponent.generateOk"
      /\ last.onLive /\ last.outcome # "TypeError")
       => plotView.selectedAnomaly[1].agent_recommendation
            = Some(formatRecommendation(last.input[1].response))
  /\ (/\ last.op = "PlotDetailsComponent.recommendationOk"
      /\ last.onLive /\ last.input[1].recommendations # <<>>)
       => \A k \in PositionsOf(plotView.anomalies, last.input[1].id) :
            plotView.anomalies[k].agent_recommendation
              = Some(formatRecommendation(last.input[1].recommendations[1]))

-----------------------------------------------------------------------------
\* Generation requests of the alerts view

\* The generation requests of the mounted alerts view outstanding for an id.
LiveGenerations(id) ==
  LET calls == {c \in InFlight : c.kind = "alertsGenerate" /\ c.live /\ c.ids = <<id>>}
  IN BagCardinality([c \in calls |-> pending[c]])

AnomalyIds == {1, 2}

C38_ProcessingReleased ==
  /\ (/\ last.op \in {"AlertsComponent.generateOk", "AlertsComponent.generateError"}
      /\ last.onLive)
       => /\ last.input[1].id \notin alertsView.processingAnomalies
          /\ \A k \in PositionsOf(alertsView.anomalies, last.input[1].id) :
               ~alertsView.anomalies[k].loadingRecommendation
  /\ \A id \in alertsView.processingAnomalies : LiveGenerations(id) >= 1

\* A request has failed on the mounted view while another anomaly's request
\* is still outstanding.
C38_Witness ==
  /\ last.op = "AlertsComponent.generateError"
  /\ last.onLive
  /\ alertsView.processingAnomalies # {}
  /\ last.input[1].id \notin alertsView.processingAnomalies

====
